---- MODULE Spec2Model ----
(***************************************************************************)
(* SenteChainAI: CreditScoreRegistry, LendingPool, SenteBadge and the      *)
(* value ledger (MockUSDC) they move.                                       *)
(*                                                                          *)
(* Every external function of a contract is an operator                     *)
(*     f(S, sender, args) == [st |-> state after the call, err |-> reason]  *)
(* over the record S of all contract storage.  err = "" is a successful     *)
(* call; any other err is the revert reason, and a reverted call returns    *)
(* the storage it was entered with (the EVM discards every write of a       *)
(* reverted call frame, nested calls included).  An action of the model is  *)
(* one successful transaction.                                              *)
(***************************************************************************)
EXTENDS Integers, Sequences, FiniteSets, TLC

(* ------------------------------ bounds --------------------------------- *)
\* token decimals used by the model (MockUSDC has 6; amounts scale with it)
Decimals == 1
\* loans ever created, over all borrowers
MaxLoans == 3
\* cap on each Registry counter
MaxCount == 2
\* calls of the token's public mint
MaxMints == 2
\* block.timestamp of the first transaction
StartTime == 1
\* request/repay cycles of one borrower in the issuance scenarios
MaxCycles == 5

(* ------------------------- program constants --------------------------- *)
MIN_SCORE == 0
MAX_SCORE == 100
DEFAULT_SCORE == 50
MaxUint8 == 255
REPAYMENT_IMPROVEMENT == 2
DEFAULT_PENALTY == 15

MIN_CREDIT_SCORE == 60
MAX_LOAN_AMOUNT == 1000 * 10^Decimals
MIN_LOAN_AMOUNT == 10 * 10^Decimals
Day == 86400
LOAN_DURATION == 30 * Day
REPAYMENT_GRACE_PERIOD == 7 * Day
BADGE_MIN_SCORE == 60
BADGE_MIN_REPAYMENTS == 3

(* ----------------------------- principals ------------------------------ *)
Users == {"alice", "bob"}
Owner == "owner"          \* deployer of the three contracts
Pool == "pool"            \* address of the LendingPool contract
BadgeAddr == "badge"      \* address of the SenteBadge contract
ZeroAddr == "0x0"
Callers == Users \cup {Owner}
Holders == Users \cup {Owner, Pool}

VARIABLES
    creditProfiles,     \* CreditScoreRegistry.creditProfiles
    oracles,            \* holders of ORACLE_ROLE
    totalDeposits, totalBorrowed, totalRepaid,
    lenders,            \* LendingPool.lenders
    borrowerLoans,      \* LendingPool.borrowerLoans
    activeLoanCount,    \* LendingPool.activeLoanCount
    senteBadge,         \* LendingPool.senteBadge
    usdcBalance,        \* token balanceOf
    usdcAllowance,      \* token allowance[holder][pool]
    nextTokenId,        \* SenteBadge._nextTokenId
    badges,             \* SenteBadge.badges, indexed by tokenId
    badgeOwner,         \* ERC721 owner of each tokenId
    hasBadge,           \* SenteBadge.hasBadge
    authorizedMinters,  \* SenteBadge.authorizedMinters
    now,                \* block.timestamp
    emergencyWithdrawn, \* history: total moved out by emergencyWithdraw
    poolOwner,          \* Ownable._owner of the LendingPool
    entered,            \* ReentrancyGuard._status = ENTERED, of the LendingPool
    receiverCode,       \* what onERC721Received of each principal's account does
    nestedLog,          \* history: the calls made from onERC721Received
    viewArgs,           \* the arguments of a call of a pure function
    viewResult          \* what that call returned

vars == <<creditProfiles, oracles, totalDeposits, totalBorrowed, totalRepaid,
          lenders, borrowerLoans, activeLoanCount, senteBadge, usdcBalance,
          usdcAllowance, nextTokenId, badges, badgeOwner, hasBadge,
          authorizedMinters, now, emergencyWithdrawn, poolOwner, entered,
          receiverCode, nestedLog, viewArgs, viewResult>>

\* the storage of all contracts as one record
Cur ==
    [creditProfiles |-> creditProfiles, oracles |-> oracles,
     totalDeposits |-> totalDeposits, totalBorrowed |-> totalBorrowed,
     totalRepaid |-> totalRepaid, lenders |-> lenders,
     borrowerLoans |-> borrowerLoans, activeLoanCount |-> activeLoanCount,
     senteBadge |-> senteBadge, usdcBalance |-> usdcBalance,
     usdcAllowance |-> usdcAllowance, nextTokenId |-> nextTokenId,
     badges |-> badges, badgeOwner |-> badgeOwner, hasBadge |-> hasBadge,
     authorizedMinters |-> authorizedMinters, now |-> now,
     emergencyWithdrawn |-> emergencyWithdrawn, poolOwner |-> poolOwner,
     entered |-> entered, receiverCode |-> receiverCode,
     nestedLog |-> nestedLog]

Ok(S) == [st |-> S, err |-> ""]
\* S is the storage at entry of the reverted transaction
Revert(S, reason) == [st |-> S, err |-> reason]

Max(a, b) == IF a >= b THEN a ELSE b

(* ======================= CreditScoreRegistry =========================== *)
EmptyProfile ==
    [score |-> 0, lastUpdated |-> 0, totalLoans |-> 0,
     successfulRepayments |-> 0, defaultedLoans |-> 0, isActive |-> FALSE]

\* mutant: every caller passes the role check
hasOracleRoleAnyone(S, sender) == TRUE

hasOracleRole(S, sender) == sender \in S.oracles

validScore(score) == score >= MIN_SCORE /\ score <= MAX_SCORE

\* mutant: the existence check of createProfile is missing
profileAbsentUnchecked(S, user) == TRUE

\* require(!creditProfiles[user].isActive)
profileAbsent(S, user) == ~S.creditProfiles[user].isActive

createProfile(S, sender, user, initialScore) ==
    IF ~hasOracleRole(S, sender) THEN Revert(S, "AccessControlUnauthorizedAccount")
    ELSE IF ~profileAbsent(S, user) THEN Revert(S, "Profile already exists")
    ELSE IF ~validScore(initialScore) THEN Revert(S, "Invalid score")
    ELSE Ok([S EXCEPT !.creditProfiles[user] =
                [score |-> initialScore, lastUpdated |-> S.now,
                 totalLoans |-> 0, successfulRepayments |-> 0,
                 defaultedLoans |-> 0, isActive |-> TRUE]])

\* the call of createProfile is written as an internal call: same msg.sender
updateScore(S, sender, user, newScore) ==
    IF ~hasOracleRole(S, sender) THEN Revert(S, "AccessControlUnauthorizedAccount")
    ELSE IF ~validScore(newScore) THEN Revert(S, "Invalid score")
    ELSE IF ~S.creditProfiles[user].isActive
         THEN LET r == createProfile(S, sender, user, newScore)
              IN  IF r.err # "" THEN Revert(S, r.err) ELSE r
    ELSE Ok([S EXCEPT !.creditProfiles[user].score = newScore,
                      !.creditProfiles[user].lastUpdated = S.now])

\* mutant: the loan is accepted but not counted
recordLoanUncounted(S, sender, user) ==
    IF ~hasOracleRole(S, sender) THEN Revert(S, "AccessControlUnauthorizedAccount")
    ELSE IF ~S.creditProfiles[user].isActive THEN Revert(S, "Profile does not exist")
    ELSE Ok(S)

\* mutant: a loan of one principal is counted for every principal with a
\* profile
recordLoanForAll(S, sender, user) ==
    IF ~hasOracleRole(S, sender) THEN Revert(S, "AccessControlUnauthorizedAccount")
    ELSE IF ~S.creditProfiles[user].isActive THEN Revert(S, "Profile does not exist")
    ELSE Ok([S EXCEPT !.creditProfiles =
                [u \in Users |->
                    IF S.creditProfiles[u].isActive
                    THEN [S.creditProfiles[u] EXCEPT !.totalLoans = @ + 1]
                    ELSE S.creditProfiles[u]]])

recordLoan(S, sender, user) ==
    IF ~hasOracleRole(S, sender) THEN Revert(S, "AccessControlUnauthorizedAccount")
    ELSE IF ~S.creditProfiles[user].isActive THEN Revert(S, "Profile does not exist")
    ELSE Ok([S EXCEPT !.creditProfiles[user].totalLoans = @ + 1])

\* mutant: the improvement is added without the cap
improvedScoreUncapped(currentScore) == currentScore + REPAYMENT_IMPROVEMENT

\* mutant: the improvement is 1 instead of 2
improvedScoreByOne(currentScore) ==
    IF currentScore + 1 > MAX_SCORE THEN MAX_SCORE ELSE currentScore + 1

\* the score after a repayment: +2, capped at MAX_SCORE
improvedScore(currentScore) ==
    IF currentScore + REPAYMENT_IMPROVEMENT > MAX_SCORE
    THEN MAX_SCORE ELSE currentScore + REPAYMENT_IMPROVEMENT

\* mutant: the repayment improves the score and is not counted
recordRepaymentScoreOnly(S, sender, user) ==
    IF ~hasOracleRole(S, sender) THEN Revert(S, "AccessControlUnauthorizedAccount")
    ELSE IF ~S.creditProfiles[user].isActive THEN Revert(S, "Profile does not exist")
    ELSE LET currentScore == S.creditProfiles[user].score
         IN  IF currentScore < MAX_SCORE
             THEN Ok([S EXCEPT
                        !.creditProfiles[user].score = improvedScore(currentScore),
                        !.creditProfiles[user].lastUpdated = S.now])
             ELSE Ok(S)

recordRepayment(S, sender, user) ==
    IF ~hasOracleRole(S, sender) THEN Revert(S, "AccessControlUnauthorizedAccount")
    ELSE IF ~S.creditProfiles[user].isActive THEN Revert(S, "Profile does not exist")
    ELSE LET currentScore == S.creditProfiles[user].score
             S1 == [S EXCEPT !.creditProfiles[user].successfulRepayments = @ + 1]
         IN  IF currentScore < MAX_SCORE
             THEN IF currentScore + REPAYMENT_IMPROVEMENT > MaxUint8
                  THEN Revert(S, "Panic(0x11)")
                  ELSE Ok([S1 EXCEPT
                        !.creditProfiles[user].score = improvedScore(currentScore),
                        !.creditProfiles[user].lastUpdated = S.now])
             ELSE Ok(S1)

\* the score after a default: -15, floored at MIN_SCORE
penalizedScore(currentScore) ==
    IF currentScore > DEFAULT_PENALTY
    THEN currentScore - DEFAULT_PENALTY ELSE MIN_SCORE

recordDefault(S, sender, user) ==
    IF ~hasOracleRole(S, sender) THEN Revert(S, "AccessControlUnauthorizedAccount")
    ELSE IF ~S.creditProfiles[user].isActive THEN Revert(S, "Profile does not exist")
    ELSE LET currentScore == S.creditProfiles[user].score
             S1 == [S EXCEPT !.creditProfiles[user].defaultedLoans = @ + 1]
         IN  IF currentScore > MIN_SCORE
             THEN Ok([S1 EXCEPT
                        !.creditProfiles[user].score = penalizedScore(currentScore),
                        !.creditProfiles[user].lastUpdated = S.now])
             ELSE Ok(S1)

\* mutant: a principal without a profile reads as the lending threshold
getScoreDefaultEligible(S, user) ==
    IF ~S.creditProfiles[user].isActive THEN MIN_CREDIT_SCORE
    ELSE S.creditProfiles[user].score

getScore(S, user) ==
    IF ~S.creditProfiles[user].isActive THEN DEFAULT_SCORE
    ELSE S.creditProfiles[user].score

getProfile(S, user) == S.creditProfiles[user]

isEligibleForLoan(S, user, minScore) ==
    IF ~S.creditProfiles[user].isActive THEN DEFAULT_SCORE >= minScore
    ELSE S.creditProfiles[user].score >= minScore

getRepaymentRate(S, user) ==
    IF ~S.creditProfiles[user].isActive \/ S.creditProfiles[user].totalLoans = 0
    THEN 0
    ELSE (S.creditProfiles[user].successfulRepayments * 100)
            \div S.creditProfiles[user].totalLoans

\* AccessControl.grantRole / revokeRole of ORACLE_ROLE: the admin is the deployer
grantOracleRole(S, sender, account) ==
    IF sender # Owner THEN Revert(S, "AccessControlUnauthorizedAccount")
    ELSE Ok([S EXCEPT !.oracles = @ \cup {account}])

revokeOracleRole(S, sender, account) ==
    IF sender # Owner THEN Revert(S, "AccessControlUnauthorizedAccount")
    ELSE Ok([S EXCEPT !.oracles = @ \ {account}])

\* AccessControl.renounceRole of ORACLE_ROLE: the caller gives up its own
\* role; renouncing a role the caller does not hold changes nothing
renounceOracleRole(S, sender, callerConfirmation) ==
    IF callerConfirmation # sender THEN Revert(S, "AccessControlBadConfirmation")
    ELSE Ok([S EXCEPT !.oracles = @ \ {callerConfirmation}])

(* ============================ value ledger ============================= *)
\* stands for type(uint256).max, the allowance the token never decrements
Unlimited == 2^30

\* mutant: a token that keeps a fee of one unit on every transfer
usdcTransferWithFee(S, from, to, amount) ==
    IF S.usdcBalance[from] < amount THEN Revert(S, "ERC20InsufficientBalance")
    ELSE Ok([S EXCEPT !.usdcBalance =
                [h \in Holders |->
                    IF h = from /\ h = to THEN S.usdcBalance[h]
                    ELSE IF h = from THEN S.usdcBalance[h] - amount
                    ELSE IF h = to /\ amount > 0 THEN S.usdcBalance[h] + amount - 1
                    ELSE S.usdcBalance[h]]])

usdcTransfer(S, from, to, amount) ==
    IF S.usdcBalance[from] < amount THEN Revert(S, "ERC20InsufficientBalance")
    ELSE Ok([S EXCEPT !.usdcBalance =
                [h \in Holders |->
                    IF h = from /\ h = to THEN S.usdcBalance[h]
                    ELSE IF h = from THEN S.usdcBalance[h] - amount
                    ELSE IF h = to THEN S.usdcBalance[h] + amount
                    ELSE S.usdcBalance[h]]])

\* mutant: a token that reports a failed transferFrom by returning false,
\* called without looking at the returned value
usdcTransferFromUnchecked(S, from, to, amount) ==
    IF S.usdcAllowance[from] < amount \/ S.usdcBalance[from] < amount
    THEN Ok(S)
    ELSE Ok([S EXCEPT !.usdcAllowance[from] =
                          IF @ = Unlimited THEN @ ELSE @ - amount,
                      !.usdcBalance[from] = @ - amount,
                      !.usdcBalance[to] = @ + amount])

\* transferFrom with the pool as spender
usdcTransferFrom(S, from, to, amount) ==
    IF S.usdcAllowance[from] < amount THEN Revert(S, "ERC20InsufficientAllowance")
    ELSE LET r == usdcTransfer([S EXCEPT !.usdcAllowance[from] =
                                    IF @ = Unlimited THEN @ ELSE @ - amount],
                               from, to, amount)
         IN  IF r.err # "" THEN Revert(S, r.err) ELSE r

usdcMint(S, to, amount) == Ok([S EXCEPT !.usdcBalance[to] = @ + amount])

usdcApprove(S, holder, amount) == Ok([S EXCEPT !.usdcAllowance[holder] = amount])

(* ============================== SenteBadge ============================= *)
\* mutant: the tier is decided by the score alone
_determineTierByScore(creditScore, repaymentsCount) ==
    IF creditScore >= 90 THEN "Platinum"
    ELSE IF creditScore >= 80 THEN "Gold"
    ELSE IF creditScore >= 70 THEN "Silver"
    ELSE "Bronze"

_determineTier(creditScore, repaymentsCount) ==
    IF creditScore >= 90 /\ repaymentsCount >= 10 THEN "Platinum"
    ELSE IF creditScore >= 80 /\ repaymentsCount >= 7 THEN "Gold"
    ELSE IF creditScore >= 70 /\ repaymentsCount >= 5 THEN "Silver"
    ELSE "Bronze"

\* mutant: the balance of every holder reads as zero
badgeBalanceOfZero(S, holder) == 0

\* ERC721.balanceOf
badgeBalanceOf(S, holder) ==
    Cardinality({t \in DOMAIN S.badgeOwner : S.badgeOwner[t] = holder})

setAuthorizedMinter(S, sender, minter, authorized) ==
    IF sender # Owner THEN Revert(S, "OwnableUnauthorizedAccount")
    ELSE IF minter = ZeroAddr THEN Revert(S, "Invalid minter address")
    ELSE Ok([S EXCEPT !.authorizedMinters =
                IF authorized THEN @ \cup {minter} ELSE @ \ {minter}])

\* an account without code
NoCode == "none"
\* the pool operations a receiver's callback may invoke
NestedCalls == {"deposit", "withdraw", "requestLoan", "repayLoan",
                "emergencyWithdraw", "setSenteBadge"}
\* the Issuer operation a receiver's callback may invoke: a mint to itself,
\* which it makes until it holds two tokens
BadgeCalls == {"mintBadge"}

RECURSIVE nestedCall(_, _, _)

\* ERC721._safeMint hands control to onERC721Received of a recipient with
\* code.  The callback makes its call to the pool, keeps going if that call
\* reverts, and accepts the token.
onERC721Received(S, to) ==
    IF S.receiverCode[to] = NoCode THEN S
    ELSE LET r == nestedCall(S, to, S.receiverCode[to])
         IN  [r.st EXCEPT !.nestedLog =
                @ \cup {[op |-> S.receiverCode[to], err |-> r.err,
                         guarded |-> S.entered]}]

\* mutant: the one-badge check of mintBadge is missing
badgeAbsentUnchecked(S, to) == TRUE

\* require(!hasBadge[to])
badgeAbsent(S, to) == ~S.hasBadge[to]

\* mutant: the threshold of mintBadge is the Registry's default score
scoreHighEnoughFromDefault(creditScore) == creditScore >= DEFAULT_SCORE

\* require(creditScore >= 60)
scoreHighEnough(creditScore) == creditScore >= BADGE_MIN_SCORE

\* the token URI is a function of (tokenId, tier, creditScore) and is not kept
mintBadge(S, sender, to, creditScore, repaymentsCount) ==
    IF ~(sender \in S.authorizedMinters \/ sender = Owner)
    THEN Revert(S, "Not authorized to mint")
    ELSE IF to = ZeroAddr THEN Revert(S, "Cannot mint to zero address")
    ELSE IF ~badgeAbsent(S, to) THEN Revert(S, "Address already has a badge")
    ELSE IF ~scoreHighEnough(creditScore) THEN Revert(S, "Credit score too low")
    ELSE LET tokenId == S.nextTokenId
             S1 == [S EXCEPT
                      !.nextTokenId = @ + 1,
                      !.badges = Append(@, [creditScore |-> creditScore,
                                            repaymentsCount |-> repaymentsCount,
                                            mintedAt |-> S.now,
                                            tier |-> _determineTier(creditScore,
                                                                    repaymentsCount)]),
                      !.badgeOwner = Append(@, to)]
             S2 == onERC721Received(S1, to)
         IN  Ok([S2 EXCEPT !.hasBadge[to] = TRUE])

hasSenteBadge(S, holder) == S.hasBadge[holder]

\* ERC721._ownerOf: the zero address for a token that was never minted
_ownerOf(S, tokenId) ==
    IF tokenId \in DOMAIN S.badgeOwner THEN S.badgeOwner[tokenId] ELSE ZeroAddr

\* mutant: the soulbound check of _update is missing
isMintOrBurnUnchecked(from, to) == TRUE

\* require(from == address(0) || to == address(0))
isMintOrBurn(from, to) == from = ZeroAddr \/ to = ZeroAddr

\* the override of ERC721._update, entered by a transfer (auth is the caller,
\* never the zero address).  No approval is ever stored, so the caller is
\* authorized exactly when it is the owner of the token.
_update(S, to, tokenId, auth) ==
    LET from == _ownerOf(S, tokenId) IN
    IF ~isMintOrBurn(from, to)
    THEN Revert(S, "SenteBadge: Soulbound token cannot be transferred")
    ELSE IF from = ZeroAddr THEN Revert(S, "ERC721NonexistentToken")
    ELSE IF from # auth THEN Revert(S, "ERC721InsufficientApproval")
    ELSE Ok([S EXCEPT !.badgeOwner[tokenId] = to])

\* ERC721.transferFrom
transferFrom(S, sender, from, to, tokenId) ==
    IF to = ZeroAddr THEN Revert(S, "ERC721InvalidReceiver")
    ELSE LET r == _update(S, to, tokenId, sender)
         IN  IF r.err # "" THEN Revert(S, r.err)
             ELSE IF _ownerOf(S, tokenId) # from
                  THEN Revert(S, "ERC721IncorrectOwner")
             ELSE r

\* ERC721.safeTransferFrom: transferFrom, then the receiver check
safeTransferFrom(S, sender, from, to, tokenId) ==
    transferFrom(S, sender, from, to, tokenId)

approve(S, sender, to, tokenId) ==
    Revert(S, "SenteBadge: Soulbound token cannot be approved")

setApprovalForAll(S, sender, operator, approved) ==
    Revert(S, "SenteBadge: Soulbound token cannot be approved")

(* ============================= LendingPool ============================= *)
\* mutant: the 81..90 band is priced as the band below it
interestRateThreeBands(creditScore) ==
    IF creditScore >= 91 THEN 5
    ELSE IF creditScore >= 71 THEN 8
    ELSE 10

\* the rate calculateInterest selects for a score, in percent
interestRate(creditScore) ==
    IF creditScore >= 91 THEN 5
    ELSE IF creditScore >= 81 THEN 6
    ELSE IF creditScore >= 71 THEN 8
    ELSE 10

\* mutant: borrowers in the best band pay no interest
calculateInterestFreeAtTop(amount, creditScore) ==
    IF creditScore >= 91 THEN 0
    ELSE (amount * interestRate(creditScore)) \div 100

\* the value calculateInterest returns when amount * rate fits in a uint256
calculateInterest(amount, creditScore) ==
    (amount * interestRate(creditScore)) \div 100

\* calculateInterest as an external call with any uint256 amount: the
\* product amount * rate is checked arithmetic and reverts when it does not
\* fit (Unlimited stands for type(uint256).max)
calculateInterestCall(amount, creditScore) ==
    IF amount > Unlimited \div interestRate(creditScore)
    THEN [done |-> TRUE, val |-> 0, err |-> "Panic(0x11)"]
    ELSE [done |-> TRUE, val |-> calculateInterest(amount, creditScore),
          err |-> ""]

\* mutant: the pool always reads as liquid
getAvailableLiquidityUnlimited(S) == Unlimited

\* mutant: the liquidity is read from the tracked deposits
getAvailableLiquidityAsDeposits(S) == S.totalDeposits

getAvailableLiquidity(S) == S.usdcBalance[Pool]

\* totalBorrowed - totalRepaid is checked uint256 arithmetic: the call
\* reverts when totalRepaid is the larger one
getUtilizationRate(S) ==
    IF S.totalDeposits = 0 THEN [val |-> 0, err |-> ""]
    ELSE IF S.totalBorrowed < S.totalRepaid THEN [val |-> 0, err |-> "Panic(0x11)"]
    ELSE [val |-> ((S.totalBorrowed - S.totalRepaid) * 100) \div S.totalDeposits,
          err |-> ""]

\* Ownable.transferOwnership
transferOwnership(S, sender, newOwner) ==
    IF sender # S.poolOwner THEN Revert(S, "OwnableUnauthorizedAccount")
    ELSE IF newOwner = ZeroAddr THEN Revert(S, "OwnableInvalidOwner")
    ELSE Ok([S EXCEPT !.poolOwner = newOwner])

\* modifier nonReentrant, before the body: _status = ENTERED
nonReentrantBefore(S) == [S EXCEPT !.entered = TRUE]

\* modifier nonReentrant, after the body: _status = NOT_ENTERED
nonReentrantAfter(r) ==
    IF r.err # "" THEN r ELSE Ok([r.st EXCEPT !.entered = FALSE])

setSenteBadge(S, sender, _senteBadge) ==
    IF sender # S.poolOwner THEN Revert(S, "OwnableUnauthorizedAccount")
    ELSE IF _senteBadge = ZeroAddr THEN Revert(S, "Invalid badge address")
    ELSE Ok([S EXCEPT !.senteBadge = _senteBadge])

\* mutant: the deposit is credited without collecting the tokens
depositWithoutTransfer(S, sender, amount) ==
    IF S.entered THEN Revert(S, "ReentrancyGuardReentrantCall")
    ELSE IF ~(amount > 0) THEN Revert(S, "Amount must be greater than 0")
    ELSE nonReentrantAfter(Ok([nonReentrantBefore(S) EXCEPT !.lenders[sender].deposited = @ + amount,
                      !.totalDeposits = @ + amount]))

\* mutant: the deposit is counted in totalDeposits and not in the position
depositUncredited(S, sender, amount) ==
    IF S.entered THEN Revert(S, "ReentrancyGuardReentrantCall")
    ELSE IF ~(amount > 0) THEN Revert(S, "Amount must be greater than 0")
    ELSE LET t == usdcTransferFrom(nonReentrantBefore(S), sender, Pool, amount)
         IN  IF t.err # "" THEN Revert(S, t.err)
             ELSE nonReentrantAfter(Ok([t.st EXCEPT !.totalDeposits = @ + amount]))

deposit(S, sender, amount) ==
    IF S.entered THEN Revert(S, "ReentrancyGuardReentrantCall")
    ELSE IF ~(amount > 0) THEN Revert(S, "Amount must be greater than 0")
    ELSE LET t == usdcTransferFrom(nonReentrantBefore(S), sender, Pool, amount)
         IN  IF t.err # "" THEN Revert(S, t.err)
             ELSE nonReentrantAfter(
                    Ok([t.st EXCEPT !.lenders[sender].deposited = @ + amount,
                                    !.totalDeposits = @ + amount]))

\* mutant: the withdrawal leaves totalDeposits as it was
withdrawKeepsTotal(S, sender, amount) ==
    IF S.entered THEN Revert(S, "ReentrancyGuardReentrantCall")
    ELSE IF ~(amount > 0) THEN Revert(S, "Amount must be greater than 0")
    ELSE IF ~(S.lenders[sender].deposited >= amount)
         THEN Revert(S, "Insufficient balance")
    ELSE IF ~(S.usdcBalance[Pool] >= amount)
         THEN Revert(S, "Insufficient pool liquidity")
    ELSE LET S1 == [nonReentrantBefore(S) EXCEPT !.lenders[sender].deposited = @ - amount]
             t == usdcTransfer(S1, Pool, sender, amount)
         IN  IF t.err # "" THEN Revert(S, t.err) ELSE nonReentrantAfter(t)

withdraw(S, sender, amount) ==
    IF S.entered THEN Revert(S, "ReentrancyGuardReentrantCall")
    ELSE IF ~(amount > 0) THEN Revert(S, "Amount must be greater than 0")
    ELSE IF ~(S.lenders[sender].deposited >= amount)
         THEN Revert(S, "Insufficient balance")
    ELSE IF ~(getAvailableLiquidity(S) >= amount)
         THEN Revert(S, "Insufficient pool liquidity")
    ELSE LET S1 == [nonReentrantBefore(S) EXCEPT !.lenders[sender].deposited = @ - amount,
                             !.totalDeposits = @ - amount]
             t == usdcTransfer(S1, Pool, sender, amount)
         IN  IF t.err # "" THEN Revert(S, t.err) ELSE nonReentrantAfter(t)

\* mutant: the active-loan check of requestLoan is missing
noActiveLoanUnchecked(S, sender) == TRUE

\* mutant: the active-loan check of requestLoan is off by one
noActiveLoanOffByOne(S, sender) == S.activeLoanCount[sender] <= 1

\* require(activeLoanCount[msg.sender] == 0)
noActiveLoan(S, sender) == S.activeLoanCount[sender] = 0

\* mutant: a failure of the Registry call is reported to the caller while the
\* loan bookkeeping done before it is kept
requestLoanKeepsPartial(S, sender, amount) ==
    IF S.entered THEN Revert(S, "ReentrancyGuardReentrantCall")
    ELSE IF ~(amount >= MIN_LOAN_AMOUNT) THEN Revert(S, "Amount too low")
    ELSE IF ~(amount <= MAX_LOAN_AMOUNT) THEN Revert(S, "Amount exceeds maximum")
    ELSE IF ~(S.activeLoanCount[sender] = 0) THEN Revert(S, "Active loan exists")
    ELSE LET creditScore == IF ~S.creditProfiles[sender].isActive
                            THEN DEFAULT_SCORE
                            ELSE S.creditProfiles[sender].score IN
         IF ~(creditScore >= MIN_CREDIT_SCORE) THEN Revert(S, "Credit score too low")
    ELSE IF ~(S.usdcBalance[Pool] >= amount)
         THEN Revert(S, "Insufficient pool liquidity")
    ELSE LET newLoan == [amount |-> amount,
                         interestAmount |->
                            (amount * (IF creditScore >= 91 THEN 5
                                       ELSE IF creditScore >= 81 THEN 6
                                       ELSE IF creditScore >= 71 THEN 8
                                       ELSE 10)) \div 100,
                         startTime |-> S.now,
                         dueDate |-> S.now + LOAN_DURATION,
                         isActive |-> TRUE,
                         isRepaid |-> FALSE,
                         borrower |-> sender]
             S1 == [nonReentrantBefore(S) EXCEPT !.borrowerLoans[sender] = Append(@, newLoan),
                             !.activeLoanCount[sender] = @ + 1,
                             !.totalBorrowed = @ + amount]
             r == recordLoan(S1, Pool, sender)
         IN  IF r.err # "" THEN [st |-> S1, err |-> r.err]
             ELSE LET t == usdcTransfer(r.st, Pool, sender, amount)
                  IN  IF t.err # "" THEN Revert(S, t.err)
                      ELSE nonReentrantAfter(t)

\* mutant: the new loan is not added to totalBorrowed
requestLoanUntallied(S, sender, amount) ==
    IF S.entered THEN Revert(S, "ReentrancyGuardReentrantCall")
    ELSE IF ~(amount >= MIN_LOAN_AMOUNT) THEN Revert(S, "Amount too low")
    ELSE IF ~(amount <= MAX_LOAN_AMOUNT) THEN Revert(S, "Amount exceeds maximum")
    ELSE IF ~noActiveLoan(S, sender) THEN Revert(S, "Active loan exists")
    ELSE LET creditScore == getScore(S, sender) IN
         IF ~(creditScore >= MIN_CREDIT_SCORE) THEN Revert(S, "Credit score too low")
    ELSE IF ~(getAvailableLiquidity(S) >= amount)
         THEN Revert(S, "Insufficient pool liquidity")
    ELSE LET newLoan == [amount |-> amount,
                         interestAmount |-> calculateInterest(amount, creditScore),
                         startTime |-> S.now,
                         dueDate |-> S.now + LOAN_DURATION,
                         isActive |-> TRUE,
                         isRepaid |-> FALSE,
                         borrower |-> sender]
             S1 == [nonReentrantBefore(S) EXCEPT !.borrowerLoans[sender] = Append(@, newLoan),
                             !.activeLoanCount[sender] = @ + 1]
             r == recordLoan(S1, Pool, sender)
         IN  IF r.err # "" THEN Revert(S, r.err)
             ELSE LET t == usdcTransfer(r.st, Pool, sender, amount)
                  IN  IF t.err # "" THEN Revert(S, t.err)
                      ELSE nonReentrantAfter(t)

requestLoan(S, sender, amount) ==
    IF S.entered THEN Revert(S, "ReentrancyGuardReentrantCall")
    ELSE IF ~(amount >= MIN_LOAN_AMOUNT) THEN Revert(S, "Amount too low")
    ELSE IF ~(amount <= MAX_LOAN_AMOUNT) THEN Revert(S, "Amount exceeds maximum")
    ELSE IF ~noActiveLoan(S, sender) THEN Revert(S, "Active loan exists")
    ELSE LET creditScore == getScore(S, sender) IN
         IF ~(creditScore >= MIN_CREDIT_SCORE) THEN Revert(S, "Credit score too low")
    ELSE IF ~(getAvailableLiquidity(S) >= amount)
         THEN Revert(S, "Insufficient pool liquidity")
    ELSE LET newLoan == [amount |-> amount,
                         interestAmount |-> calculateInterest(amount, creditScore),
                         startTime |-> S.now,
                         dueDate |-> S.now + LOAN_DURATION,
                         isActive |-> TRUE,
                         isRepaid |-> FALSE,
                         borrower |-> sender]
             S1 == [nonReentrantBefore(S) EXCEPT !.borrowerLoans[sender] = Append(@, newLoan),
                             !.activeLoanCount[sender] = @ + 1,
                             !.totalBorrowed = @ + amount]
             r == recordLoan(S1, Pool, sender)
         IN  IF r.err # "" THEN Revert(S, r.err)
             ELSE LET t == usdcTransfer(r.st, Pool, sender, amount)
                  IN  IF t.err # "" THEN Revert(S, t.err)
                      ELSE nonReentrantAfter(t)

\* mutant: the badge is due after four repayments
qualifiesForBadgeAfterFour(profile) ==
    profile.successfulRepayments > BADGE_MIN_REPAYMENTS
        /\ profile.defaultedLoans = 0

\* mutant: defaults do not matter
qualifiesForBadgeDespiteDefaults(profile) ==
    profile.successfulRepayments >= BADGE_MIN_REPAYMENTS

\* profile.successfulRepayments >= 3 && profile.defaultedLoans == 0
qualifiesForBadge(profile) ==
    profile.successfulRepayments >= BADGE_MIN_REPAYMENTS
        /\ profile.defaultedLoans = 0

_checkAndMintBadge(S, borrower) ==
    IF S.senteBadge = ZeroAddr THEN Ok(S)
    ELSE IF badgeBalanceOf(S, borrower) > 0 THEN Ok(S)
    ELSE LET profile == getProfile(S, borrower)
         IN  IF qualifiesForBadge(profile)
             THEN mintBadge(S, Pool, borrower, profile.score,
                            profile.successfulRepayments)
             ELSE Ok(S)

\* mutant: the loan is in default as soon as it is due
isPastDueDate(S, loan) == S.now > loan.dueDate

\* mutant: the grace period never ends, a late repayment is accepted
graceNeverOver(S, loan) == FALSE

\* block.timestamp > loan.dueDate + REPAYMENT_GRACE_PERIOD
isPastGracePeriod(S, loan) == S.now > loan.dueDate + REPAYMENT_GRACE_PERIOD

\* mutant: the isActive check of repayLoan is missing
loanIsActiveUnchecked(loan) == TRUE

\* require(loan.isActive)
loanIsActive(loan) == loan.isActive

\* loan ids are 0-based in the contract; the sequence is 1-based
repayLoan(S, sender, loanId) ==
    IF S.entered THEN Revert(S, "ReentrancyGuardReentrantCall")
    ELSE IF ~(loanId < Len(S.borrowerLoans[sender])) THEN Revert(S, "Invalid loan ID")
    ELSE LET loan == S.borrowerLoans[sender][loanId + 1] IN
         IF ~loanIsActive(loan) THEN Revert(S, "Loan not active")
    ELSE IF loan.isRepaid THEN Revert(S, "Loan already repaid")
    ELSE IF loan.borrower # sender THEN Revert(S, "Not loan owner")
    ELSE IF S.activeLoanCount[sender] = 0 THEN Revert(S, "Panic(0x11)")
    ELSE LET totalRepayment == loan.amount + loan.interestAmount IN
         IF isPastGracePeriod(S, loan)
         THEN LET S1 == [nonReentrantBefore(S) EXCEPT
                           !.borrowerLoans[sender][loanId + 1].isActive = FALSE,
                           !.activeLoanCount[sender] = @ - 1]
                  r == recordDefault(S1, Pool, sender)
              IN  IF r.err # "" THEN Revert(S, r.err)
                  ELSE Revert(S, "Loan defaulted - past grace period")
         ELSE LET t == usdcTransferFrom(nonReentrantBefore(S), sender, Pool,
                                       totalRepayment) IN
              IF t.err # "" THEN Revert(S, t.err)
              ELSE LET S1 == [t.st EXCEPT
                                !.borrowerLoans[sender][loanId + 1].isActive = FALSE,
                                !.borrowerLoans[sender][loanId + 1].isRepaid = TRUE,
                                !.activeLoanCount[sender] = @ - 1,
                                !.totalRepaid = @ + totalRepayment]
                       r == recordRepayment(S1, Pool, sender)
                   IN  IF r.err # "" THEN Revert(S, r.err)
                       ELSE LET b == _checkAndMintBadge(r.st, sender)
                            IN  IF b.err # "" THEN Revert(S, b.err)
                                ELSE nonReentrantAfter(b)

\* mutant: the owner's withdrawal is taken off the tracked deposits
emergencyWithdrawOffDeposits(S, sender, amount) ==
    IF sender # S.poolOwner THEN Revert(S, "OwnableUnauthorizedAccount")
    ELSE IF ~(amount <= getAvailableLiquidity(S)) THEN Revert(S, "Insufficient balance")
    ELSE LET t == usdcTransfer(S, Pool, S.poolOwner, amount)
         IN  IF t.err # "" THEN Revert(S, t.err)
             ELSE Ok([t.st EXCEPT !.emergencyWithdrawn = @ + amount,
                                  !.totalDeposits = @ - amount])

emergencyWithdraw(S, sender, amount) ==
    IF sender # S.poolOwner THEN Revert(S, "OwnableUnauthorizedAccount")
    ELSE IF ~(amount <= getAvailableLiquidity(S)) THEN Revert(S, "Insufficient balance")
    ELSE LET t == usdcTransfer(S, Pool, S.poolOwner, amount)
         IN  IF t.err # "" THEN Revert(S, t.err)
             ELSE Ok([t.st EXCEPT !.emergencyWithdrawn = @ + amount])

\* the call a receiver's callback makes to the pool or to the Issuer, with
\* itself as caller
nestedCall(S, caller, op) ==
    IF op = "deposit" THEN deposit(S, caller, 2 * MIN_LOAN_AMOUNT)
    ELSE IF op = "withdraw" THEN withdraw(S, caller, 2 * MIN_LOAN_AMOUNT)
    ELSE IF op = "requestLoan" THEN requestLoan(S, caller, MIN_LOAN_AMOUNT)
    ELSE IF op = "repayLoan" THEN repayLoan(S, caller, 0)
    ELSE IF op = "emergencyWithdraw"
         THEN emergencyWithdraw(S, caller, getAvailableLiquidity(S))
    ELSE IF op = "mintBadge"
         THEN IF Cardinality({t \in DOMAIN S.badgeOwner :
                                S.badgeOwner[t] = caller}) >= 2
              THEN Ok(S)
              ELSE mintBadge(S, caller, caller, MAX_SCORE, BADGE_MIN_REPAYMENTS)
    ELSE setSenteBadge(S, caller, BadgeAddr)

(* ============================ the machine ============================== *)
\* LenderInfo.lastDepositTime is written and never read, interestEarned is
\* never written: the model keeps the deposited amount only
EmptyLender == [deposited |-> 0]

\* the storage after the three constructors
InitStorage ==
    /\ creditProfiles = [u \in Users |-> EmptyProfile]
    /\ oracles = {Owner}
    /\ totalDeposits = 0 /\ totalBorrowed = 0 /\ totalRepaid = 0
    /\ lenders = [u \in Users |-> EmptyLender]
    /\ borrowerLoans = [u \in Users |-> <<>>]
    /\ activeLoanCount = [u \in Users |-> 0]
    /\ senteBadge = ZeroAddr
    /\ usdcBalance = [h \in Holders |-> 0]
    /\ usdcAllowance = [h \in Holders |-> 0]
    /\ nextTokenId = 1
    /\ badges = <<>>
    /\ badgeOwner = <<>>
    /\ hasBadge = [u \in Users |-> FALSE]
    /\ authorizedMinters = {}
    /\ now = StartTime
    /\ emergencyWithdrawn = 0
    /\ poolOwner = Owner
    /\ entered = FALSE
    /\ nestedLog = {}

\* no call of a pure function is under observation
NoViewArgs == [amount |-> 0, creditScore |-> 0]
NoViewResult == [done |-> FALSE, val |-> 0, err |-> ""]

NoViewCall ==
    /\ viewArgs = NoViewArgs
    /\ viewResult = NoViewResult

\* every principal is an externally owned account: no code, no callback
Init ==
    /\ InitStorage
    /\ receiverCode = [u \in Users |-> NoCode]
    /\ NoViewCall

\* a successful transaction replaces the storage by the call's result
Commit(r) ==
    /\ r.err = ""
    /\ creditProfiles' = r.st.creditProfiles
    /\ oracles' = r.st.oracles
    /\ totalDeposits' = r.st.totalDeposits
    /\ totalBorrowed' = r.st.totalBorrowed
    /\ totalRepaid' = r.st.totalRepaid
    /\ lenders' = r.st.lenders
    /\ borrowerLoans' = r.st.borrowerLoans
    /\ activeLoanCount' = r.st.activeLoanCount
    /\ senteBadge' = r.st.senteBadge
    /\ usdcBalance' = r.st.usdcBalance
    /\ usdcAllowance' = r.st.usdcAllowance
    /\ nextTokenId' = r.st.nextTokenId
    /\ badges' = r.st.badges
    /\ badgeOwner' = r.st.badgeOwner
    /\ hasBadge' = r.st.hasBadge
    /\ authorizedMinters' = r.st.authorizedMinters
    /\ now' = r.st.now
    /\ emergencyWithdrawn' = r.st.emergencyWithdrawn
    /\ poolOwner' = r.st.poolOwner
    /\ entered' = r.st.entered
    /\ receiverCode' = r.st.receiverCode
    /\ nestedLog' = r.st.nestedLog
    /\ UNCHANGED <<viewArgs, viewResult>>

(* ------------------------------ inputs --------------------------------- *)
\* principals the scoring service writes profiles for in the pool scenarios
Borrowers == {"alice"}
\* scores the scoring service delivers: below the threshold, above it, invalid
ScoreInputs == {57, 75, 101}
\* scores written in the Registry scenarios: near the floor, near the cap,
\* just out of range, the largest uint8
RegistryScores == {10, 99, 101, MaxUint8}
LoanAmount == MIN_LOAN_AMOUNT + MIN_LOAN_AMOUNT \div 2
LoanAmounts == {MIN_LOAN_AMOUNT - 1, LoanAmount, MAX_LOAN_AMOUNT + 1}
DepositAmount == 2 * MIN_LOAN_AMOUNT
DepositAmounts == {0, DepositAmount}
LoanIds == 0 .. Max(MaxLoans, MaxCycles)

RECURSIVE SumOver(_, _)
SumOver(f, D) ==
    IF D = {} THEN 0
    ELSE LET x == CHOOSE y \in D : TRUE IN f[x] + SumOver(f, D \ {x})

TotalLoans(S) == SumOver([u \in Users |-> Len(S.borrowerLoans[u])], Users)

TotalSupply(S) == SumOver(S.usdcBalance, Holders)

(* ------------------------------ actions -------------------------------- *)
CreateProfileFor(users, scores) ==
    \E c \in Callers, u \in users, s \in scores :
        Commit(createProfile(Cur, c, u, s))

UpdateScoreFor(users, scores) ==
    \E c \in Callers, u \in users, s \in scores :
        Commit(updateScore(Cur, c, u, s))

CreateProfile == CreateProfileFor(Borrowers, ScoreInputs)

UpdateScore == UpdateScoreFor(Borrowers, ScoreInputs)

OracleCreateProfile == CreateProfileFor(Users, RegistryScores)

OracleUpdateScore == UpdateScoreFor(Users, RegistryScores)

RecordLoan ==
    \E c \in Callers, u \in Users :
        /\ creditProfiles[u].totalLoans < MaxCount
        /\ Commit(recordLoan(Cur, c, u))

RecordRepayment ==
    \E c \in Callers, u \in Users :
        /\ creditProfiles[u].successfulRepayments < MaxCount
        /\ Commit(recordRepayment(Cur, c, u))

RecordDefault ==
    \E c \in Callers, u \in Users :
        /\ creditProfiles[u].defaultedLoans < MaxCount
        /\ Commit(recordDefault(Cur, c, u))

GrantOracleRole ==
    \E c \in Callers : Commit(grantOracleRole(Cur, c, Pool))

RevokeOracleRole ==
    \E c \in Callers : Commit(revokeOracleRole(Cur, c, Pool))

SetSenteBadge ==
    \E c \in Callers, a \in {ZeroAddr, BadgeAddr} :
        Commit(setSenteBadge(Cur, c, a))

SetAuthorizedMinter ==
    \E c \in Callers, a \in BOOLEAN :
        Commit(setAuthorizedMinter(Cur, c, Pool, a))

UsdcMint ==
    \E u \in Users, a \in {DepositAmount} :
        /\ TotalSupply(Cur) + a <= MaxMints * DepositAmount
        /\ Commit(usdcMint(Cur, u, a))

UsdcApprove ==
    \E u \in Users, a \in {0, Unlimited} : Commit(usdcApprove(Cur, u, a))

Deposit ==
    \E c \in Users, a \in DepositAmounts : Commit(deposit(Cur, c, a))

Withdraw ==
    \E c \in Users, a \in DepositAmounts : Commit(withdraw(Cur, c, a))

RequestLoan ==
    \E c \in Users, a \in LoanAmounts :
        /\ TotalLoans(Cur) < MaxLoans
        /\ Commit(requestLoan(Cur, c, a))

RepayLoan ==
    \E c \in Users, id \in LoanIds : Commit(repayLoan(Cur, c, id))

EmergencyWithdraw ==
    \E c \in Callers, a \in {DepositAmount} :
        Commit(emergencyWithdraw(Cur, c, a))

\* scores of the profiles in the issuance scenarios: in the 8% band, and one
\* repayment below the cap
IssuanceScores == {75, 99}
\* arguments of an explicit mintBadge: below the badge threshold, and the top tier
BadgeScores == {59, 95}
BadgeRepayments == {10}

IssuanceProfile == CreateProfileFor(Borrowers, IssuanceScores)

MintBadge ==
    \E c \in Callers, u \in Users, s \in BadgeScores, n \in BadgeRepayments :
        Commit(mintBadge(Cur, c, u, s, n))

\* the deployment script's senteBadge.setAuthorizedMinter(pool, true)
AuthorizePool ==
    \E c \in Callers : Commit(setAuthorizedMinter(Cur, c, Pool, TRUE))

\* a principal's approve(pool, type(uint256).max)
ApprovePool ==
    \E u \in Users : Commit(usdcApprove(Cur, u, Unlimited))

RequestLoanCycle ==
    \E c \in Borrowers :
        /\ TotalLoans(Cur) < MaxCycles
        /\ Commit(requestLoan(Cur, c, LoanAmount))

\* every loan of the pool, as <<borrower, index>>
LoanRefs(S) ==
    {p \in Users \X (1 .. Max(MaxLoans, MaxCycles) + 1) :
        p[2] <= Len(S.borrowerLoans[p[1]])}

\* the block timestamp moves to an instant at which some loan's repayment
\* window is decided: the last instant of its grace period (which is after
\* its due date), or the first instant after it
TimeTargets ==
    {borrowerLoans[q[1][1]][q[1][2]].dueDate + q[2] :
        q \in LoanRefs(Cur) \X {REPAYMENT_GRACE_PERIOD,
                                 REPAYMENT_GRACE_PERIOD + 1}}

\* the last instant the model observes: the grace period of a loan taken at
\* StartTime is over
MaxTime == StartTime + LOAN_DURATION + REPAYMENT_GRACE_PERIOD + 1

AdvanceTime ==
    \E t \in TimeTargets :
        /\ t > now
        /\ t <= MaxTime
        /\ now' = t
        /\ UNCHANGED <<creditProfiles, oracles, totalDeposits, totalBorrowed,
                       totalRepaid, lenders, borrowerLoans, activeLoanCount,
                       senteBadge, usdcBalance, usdcAllowance, nextTokenId,
                       badges, badgeOwner, hasBadge, authorizedMinters,
                       emergencyWithdrawn, poolOwner, entered, receiverCode,
                       nestedLog, viewArgs, viewResult>>

(* --------------------------- specifications ---------------------------- *)
\* the deployment as operated: the oracle key writes scores, the pool alone
\* reports loan events to the Registry and mints badges
Next ==
    \/ CreateProfile
    \/ UpdateScore
    \/ GrantOracleRole
    \/ RevokeOracleRole
    \/ SetSenteBadge
    \/ SetAuthorizedMinter
    \/ UsdcMint
    \/ UsdcApprove
    \/ Deposit
    \/ Withdraw
    \/ RequestLoan
    \/ RepayLoan
    \/ EmergencyWithdraw
    \/ AdvanceTime

Spec == Init /\ [][Next]_vars

\* the Registry driven directly by its oracles, every operation in any order
NextRegistry ==
    \/ OracleCreateProfile
    \/ OracleUpdateScore
    \/ RecordLoan
    \/ RecordRepayment
    \/ RecordDefault
    \/ GrantOracleRole
    \/ RevokeOracleRole

SpecRegistry == Init /\ [][NextRegistry]_vars

\* the badge issuance: the deployment is configured, one borrower goes
\* through request/repay cycles, the administrator mints explicitly and an
\* oracle reports defaults, in any order
NextIssuance ==
    \/ IssuanceProfile
    \/ GrantOracleRole
    \/ SetSenteBadge
    \/ AuthorizePool
    \/ UsdcMint
    \/ ApprovePool
    \/ Deposit
    \/ RequestLoanCycle
    \/ RepayLoan
    \/ MintBadge
    \/ RecordDefault

SpecIssuance == Init /\ [][NextIssuance]_vars

\* the borrower is a contract account whose onERC721Received makes one call
\* to the pool
InitReentrancy ==
    /\ InitStorage
    /\ receiverCode \in [Users -> NestedCalls \cup {NoCode}]
    /\ \A u \in Users \ Borrowers : receiverCode[u] = NoCode
    /\ NoViewCall

\* Ownable.transferOwnership of the pool: the owner hands the pool to a
\* contract account that also borrows
TransferOwnership ==
    \E c \in Callers, u \in Borrowers : Commit(transferOwnership(Cur, c, u))

\* request/repay cycles of a borrower whose account has code
NextReentrancy ==
    \/ IssuanceProfile
    \/ GrantOracleRole
    \/ SetSenteBadge
    \/ AuthorizePool
    \/ UsdcMint
    \/ ApprovePool
    \/ Deposit
    \/ RequestLoanCycle
    \/ RepayLoan
    \/ TransferOwnership

SpecReentrancy == InitReentrancy /\ [][NextReentrancy]_vars

\* the administrator grants and revokes the oracle role of any principal
GrantOracle ==
    \E c \in Callers, a \in Holders : Commit(grantOracleRole(Cur, c, a))

RevokeOracle ==
    \E c \in Callers, a \in Holders : Commit(revokeOracleRole(Cur, c, a))

\* an oracle gives up its role
RenounceOracle ==
    \E c \in Callers :
        /\ c \in oracles
        /\ Commit(renounceOracleRole(Cur, c, c))

\* the Registry written by whoever holds the oracle role, while the
\* administrator grants and revokes the role and oracles renounce it
NextAccess ==
    \/ GrantOracle
    \/ RevokeOracle
    \/ RenounceOracle
    \/ IssuanceProfile
    \/ RecordLoan
    \/ RecordRepayment
    \/ RecordDefault

SpecAccess == Init /\ [][NextAccess]_vars

\* arguments of mintBadge on both sides of every tier threshold
TierScores == {60, 69, 70, 79, 80, 89, 90, MAX_SCORE}
TierRepayments == {0, 4, 5, 6, 7, 9, 10, 11}

MintBadgeOfTier ==
    \E c \in Callers, u \in Users, s \in TierScores, n \in TierRepayments :
        Commit(mintBadge(Cur, c, u, s, n))

\* credentials of every tier are minted, one principal after the other
SpecTier == Init /\ [][MintBadgeOfTier]_vars

\* lenders deposit and withdraw while a borrower goes through request/repay
\* cycles, so that part of the deposits is lent out
NextLiquidity ==
    \/ IssuanceProfile
    \/ GrantOracleRole
    \/ UsdcMint
    \/ ApprovePool
    \/ Deposit
    \/ Withdraw
    \/ RequestLoanCycle
    \/ RepayLoan

SpecLiquidity == Init /\ [][NextLiquidity]_vars

\* the instants that decide a repayment: the due date of a loan, the instant
\* after it, the last instant of the grace period and the first one after it
RepaymentInstants ==
    {borrowerLoans[q[1][1]][q[1][2]].dueDate + q[2] :
        q \in LoanRefs(Cur) \X {0, 1, REPAYMENT_GRACE_PERIOD,
                                 REPAYMENT_GRACE_PERIOD + 1}}

\* the block timestamp moves on to one of these instants
PassTime ==
    \E t \in RepaymentInstants :
        /\ t > now
        /\ t <= MaxTime
        /\ now' = t
        /\ UNCHANGED <<creditProfiles, oracles, totalDeposits, totalBorrowed,
                       totalRepaid, lenders, borrowerLoans, activeLoanCount,
                       senteBadge, usdcBalance, usdcAllowance, nextTokenId,
                       badges, badgeOwner, hasBadge, authorizedMinters,
                       emergencyWithdrawn, poolOwner, entered, receiverCode,
                       nestedLog, viewArgs, viewResult>>

\* a borrower takes loans and repays them on time, late or too late
NextGrace ==
    \/ IssuanceProfile
    \/ GrantOracleRole
    \/ UsdcMint
    \/ ApprovePool
    \/ Deposit
    \/ RequestLoanCycle
    \/ RepayLoan
    \/ PassTime

SpecGrace == Init /\ [][NextGrace]_vars

\* amounts the owner removes: part of what a repaid loan leaves in the pool,
\* and a whole deposit
EmergencyAmounts == {MIN_LOAN_AMOUNT \div 2, DepositAmount}

EmergencyWithdrawSome ==
    \E c \in Callers, a \in EmergencyAmounts :
        Commit(emergencyWithdraw(Cur, c, a))

\* the custody of the pool: lenders deposit and withdraw, a borrower takes
\* and repays loans, the owner removes tokens
NextCustody ==
    \/ IssuanceProfile
    \/ GrantOracleRole
    \/ UsdcMint
    \/ ApprovePool
    \/ Deposit
    \/ Withdraw
    \/ RequestLoanCycle
    \/ RepayLoan
    \/ EmergencyWithdrawSome

SpecCustody == Init /\ [][NextCustody]_vars

\* the scoring service moves a borrower's score from one interest band to
\* another
RescoreBorrower == UpdateScoreFor(Borrowers, IssuanceScores)

\* loans of the smallest amount and of an amount inside the range
TermAmounts == {MIN_LOAN_AMOUNT, LoanAmount}

RequestLoanOfRange ==
    \E c \in Borrowers, a \in TermAmounts :
        /\ TotalLoans(Cur) < MaxCount
        /\ Commit(requestLoan(Cur, c, a))

\* loans are taken at different instants, for different amounts and with
\* different scores, and the score changes while they are out
NextTerms ==
    \/ IssuanceProfile
    \/ RescoreBorrower
    \/ GrantOracleRole
    \/ UsdcMint
    \/ ApprovePool
    \/ Deposit
    \/ RequestLoanOfRange
    \/ RepayLoan
    \/ AdvanceTime

SpecTerms == Init /\ [][NextTerms]_vars

\* every principal gets a profile that allows it to borrow
ProfileEach == CreateProfileFor(Users, IssuanceScores)

RequestLoanEach ==
    \E c \in Users :
        /\ TotalLoans(Cur) < MaxLoans
        /\ Commit(requestLoan(Cur, c, MIN_LOAN_AMOUNT))

\* several principals, each of them lender and borrower of the same pool
NextPrincipals ==
    \/ ProfileEach
    \/ GrantOracleRole
    \/ UsdcMint
    \/ ApprovePool
    \/ Deposit
    \/ Withdraw
    \/ RequestLoanEach
    \/ RepayLoan

SpecPrincipals == Init /\ [][NextPrincipals]_vars

\* an account that receives a credential may have code that calls mintBadge
InitMinters ==
    /\ InitStorage
    /\ receiverCode \in [Users -> BadgeCalls \cup {NoCode}]
    /\ NoViewCall

\* SenteBadge.setAuthorizedMinter for the pool or for any principal
AuthorizeMinter ==
    \E c \in Callers, m \in Users \cup {Pool}, a \in BOOLEAN :
        Commit(setAuthorizedMinter(Cur, c, m, a))

\* the Issuer alone: its owner authorizes and revokes minters, and whoever
\* may mint does
NextMinters ==
    \/ AuthorizeMinter
    \/ MintBadge

SpecMinters == InitMinters /\ [][NextMinters]_vars

\* the storage of the contracts, as the variables that hold it
contractVars ==
    <<creditProfiles, oracles, totalDeposits, totalBorrowed, totalRepaid,
      lenders, borrowerLoans, activeLoanCount, senteBadge, usdcBalance,
      usdcAllowance, nextTokenId, badges, badgeOwner, hasBadge,
      authorizedMinters, now, emergencyWithdrawn, poolOwner, entered,
      receiverCode, nestedLog>>

\* amounts passed to calculateInterest: nothing, one unit, amounts whose
\* interest is truncated, the loan ceiling, and the largest amounts whose
\* product with the rates 10 and 5 fits in a uint256, with their successors
InterestAmounts ==
    {0, 1, MIN_LOAN_AMOUNT - 1, LoanAmount + 5, MAX_LOAN_AMOUNT,
     Unlimited \div 10, Unlimited \div 10 + 1, Unlimited \div 5,
     Unlimited \div 5 + 1, Unlimited}
InterestScores == MIN_SCORE .. MAX_SCORE

\* a caller is about to call calculateInterest(amount, creditScore)
InitInterest ==
    /\ InitStorage
    /\ receiverCode = [u \in Users |-> NoCode]
    /\ viewArgs \in [amount : InterestAmounts, creditScore : InterestScores]
    /\ viewResult = NoViewResult

\* the call of LendingPool.calculateInterest, a pure function
CalculateInterest ==
    /\ ~viewResult.done
    /\ viewResult' = calculateInterestCall(viewArgs.amount, viewArgs.creditScore)
    /\ UNCHANGED <<contractVars, viewArgs>>

SpecInterest == InitInterest /\ [][CalculateInterest]_vars

(* ============================== properties ============================= *)
\* the status the flags of a loan encode
loanStatus(loan) ==
    IF loan.isActive THEN "Active"
    ELSE IF loan.isRepaid THEN "Repaid"
    ELSE "Defaulted"

\* the loans the caller can name: <<borrower, loanId>>
OwnLoans == {<<p[1], p[2] - 1>> : p \in LoanRefs(Cur)}

loanOf(S, b, id) == S.borrowerLoans[b][id + 1]

owed(loan) == loan.amount + loan.interestAmount

\* the principal lent out on Active loans
ActivePrincipal(S) ==
    SumOver([p \in LoanRefs(S) |->
                IF S.borrowerLoans[p[1]][p[2]].isActive
                THEN S.borrowerLoans[p[1]][p[2]].amount ELSE 0],
            LoanRefs(S))

(* C1: repayLoan by the borrower on an Active loan after dueDate + grace    *)
(* leaves the loan Defaulted, defaultedLoans one higher, the score at       *)
(* max(score - 15, 0), no token moved, and reports failure.                 *)
C1_LateRepayDefaults ==
    \A l \in OwnLoans :
        LET b == l[1]
            loan == loanOf(Cur, b, l[2])
            r == repayLoan(Cur, b, l[2])
        IN  (loan.isActive /\ now > loan.dueDate + REPAYMENT_GRACE_PERIOD) =>
                /\ r.err # ""
                /\ loanStatus(loanOf(r.st, b, l[2])) = "Defaulted"
                /\ r.st.creditProfiles[b].defaultedLoans
                      = creditProfiles[b].defaultedLoans + 1
                /\ r.st.creditProfiles[b].score
                      = Max(creditProfiles[b].score - DEFAULT_PENALTY, 0)
                /\ r.st.usdcBalance = usdcBalance

\* repayLoan gets as far as the badge check: the loan is Active, the grace
\* period is not over, the payment can be collected and the Registry accepts
\* the pool's report
ReachesBadgeCheck(b, id) ==
    LET loan == loanOf(Cur, b, id)
    IN  /\ loan.isActive
        /\ ~(now > loan.dueDate + REPAYMENT_GRACE_PERIOD)
        /\ usdcBalance[b] >= owed(loan)
        /\ usdcAllowance[b] >= owed(loan)
        /\ Pool \in oracles

(* C2: a repayLoan that passes its checks within the grace window makes the *)
(* loan Repaid and records the repayment, whatever the badge mint does.     *)
C2_MintFailureKeepsRepayment ==
    \A l \in OwnLoans :
        LET b == l[1]
            r == repayLoan(Cur, b, l[2])
        IN  ReachesBadgeCheck(b, l[2]) =>
                /\ r.err = ""
                /\ loanStatus(loanOf(r.st, b, l[2])) = "Repaid"
                /\ r.st.creditProfiles[b].successfulRepayments
                      = creditProfiles[b].successfulRepayments + 1

(* C3: every borrower has at most one Active loan.                          *)
C3_AtMostOneActiveLoan ==
    \A b \in Users :
        Cardinality({i \in DOMAIN borrowerLoans[b] : borrowerLoans[b][i].isActive})
            <= 1

\* a borrower with an earlier, finished loan holds an Active one, and a
\* further request is refused
C3_Witness ==
    \E b \in Users :
        /\ Len(borrowerLoans[b]) >= 2
        /\ \E i \in DOMAIN borrowerLoans[b] : borrowerLoans[b][i].isActive
        /\ requestLoan(Cur, b, LoanAmount).err = "Active loan exists"

\* one step of the loan state machine
LoanStep(b, i) ==
    /\ i <= Len(borrowerLoans'[b])
    /\ loanStatus(borrowerLoans'[b][i]) # loanStatus(borrowerLoans[b][i]) =>
          /\ loanStatus(borrowerLoans[b][i]) = "Active"
          /\ loanStatus(borrowerLoans'[b][i]) \in {"Repaid", "Defaulted"}

\* a finished loan cannot be repaid again
FinishedLoansRefuseRepayment ==
    \A l \in OwnLoans :
        loanStatus(loanOf(Cur, l[1], l[2])) # "Active" =>
            /\ repayLoan(Cur, l[1], l[2]).err = "Loan not active"
            /\ repayLoan(Cur, l[1], l[2]).st = Cur

(* C4: a loan's status only goes from Active to Repaid or Defaulted, never  *)
(* changes afterwards, and repayLoan on a finished loan fails with          *)
(* "Loan not active".                                                       *)
C4_LoanStatusTerminal ==
    /\ []FinishedLoansRefuseRepayment
    /\ [][\A b \in Users : \A i \in DOMAIN borrowerLoans[b] : LoanStep(b, i)]_vars

C4_Witness ==
    \E l \in OwnLoans :
        /\ loanStatus(loanOf(Cur, l[1], l[2])) = "Repaid"
        /\ repayLoan(Cur, l[1], l[2]).err = "Loan not active"

(* C5: for every principal totalLoans >= successfulRepayments +             *)
(* defaultedLoans >= 0.                                                     *)
C5_CountersCoherent ==
    \A u \in Users :
        /\ creditProfiles[u].successfulRepayments + creditProfiles[u].defaultedLoans >= 0
        /\ creditProfiles[u].totalLoans
              >= creditProfiles[u].successfulRepayments
                    + creditProfiles[u].defaultedLoans

(* C6 as stated: totalDeposits is at most the held balance plus the         *)
(* principal lent out on Active loans, emergencyWithdraw included.          *)
C6_Solvency ==
    totalDeposits <= usdcBalance[Pool] + ActivePrincipal(Cur)

(* C6 as amended: totalDeposits is at most the held balance plus the        *)
(* principal lent out on Active loans plus what emergencyWithdraw removed.  *)
C6_SolvencyUpToEmergency ==
    totalDeposits <= usdcBalance[Pool] + ActivePrincipal(Cur) + emergencyWithdrawn

\* deposits are partly lent out and the owner has used emergencyWithdraw
C6_Witness ==
    /\ totalDeposits > 0
    /\ ActivePrincipal(Cur) > 0
    /\ emergencyWithdrawn > 0

(* C7: the deposited amounts of all lenders add up to totalDeposits and     *)
(* none is negative.                                                        *)
C7_DepositsSum ==
    /\ SumOver([u \in Users |-> lenders[u].deposited], Users) = totalDeposits
    /\ \A u \in Users : lenders[u].deposited >= 0

\* two lenders hold deposits while part of them is lent out
C7_Witness ==
    /\ \A u \in Users : lenders[u].deposited > 0
    /\ usdcBalance[Pool] < totalDeposits

\* the validation, authorization and business-rule rejections
Rejections ==
    {"Amount must be greater than 0", "Insufficient balance",
     "Insufficient pool liquidity", "Amount too low", "Amount exceeds maximum",
     "Active loan exists", "Credit score too low", "Invalid loan ID",
     "Loan not active", "Loan already repaid", "Not loan owner",
     "AccessControlUnauthorizedAccount", "OwnableUnauthorizedAccount",
     "Profile already exists", "Invalid score", "Profile does not exist",
     "Not authorized to mint", "Cannot mint to zero address",
     "Address already has a badge", "Invalid badge address",
     "Invalid minter address"}

\* a rejected call leaves the storage as it was
Atomic(r) == r.err \in Rejections => r.st = Cur

AllScores == ScoreInputs \cup RegistryScores

(* C8: every call that fails with a validation, authorization or            *)
(* business-rule error leaves profiles, loans, lender positions, pool       *)
(* totals, credentials and token balances exactly as they were.             *)
C8_RejectedCallsChangeNothing ==
    /\ \A c \in Callers \cup {Pool}, u \in Users :
          /\ \A s \in AllScores :
                /\ Atomic(createProfile(Cur, c, u, s))
                /\ Atomic(updateScore(Cur, c, u, s))
                /\ Atomic(mintBadge(Cur, c, u, s, BADGE_MIN_REPAYMENTS))
          /\ Atomic(recordLoan(Cur, c, u))
          /\ Atomic(recordRepayment(Cur, c, u))
          /\ Atomic(recordDefault(Cur, c, u))
    /\ \A c \in Callers :
          /\ \A a \in DepositAmounts \cup LoanAmounts :
                Atomic(emergencyWithdraw(Cur, c, a))
          /\ \A a \in {ZeroAddr, BadgeAddr} : Atomic(setSenteBadge(Cur, c, a))
          /\ \A m \in {ZeroAddr, Pool}, a \in BOOLEAN :
                Atomic(setAuthorizedMinter(Cur, c, m, a))
    /\ \A c \in Users :
          /\ \A a \in DepositAmounts \cup LoanAmounts :
                /\ Atomic(deposit(Cur, c, a))
                /\ Atomic(withdraw(Cur, c, a))
                /\ Atomic(requestLoan(Cur, c, a))
          /\ \A id \in LoanIds : Atomic(repayLoan(Cur, c, id))

\* with a loan out, the borrower's next request and a lender's withdrawal are
\* both rejected, for different reasons
C8_Witness ==
    /\ \E b \in Users : requestLoan(Cur, b, LoanAmount).err = "Active loan exists"
    /\ \E u \in Users : withdraw(Cur, u, DepositAmount).err = "Insufficient pool liquidity"
    /\ \E u \in Users : repayLoan(Cur, u, 0).err = "Invalid loan ID"

(* C9: every profile's score is in [0,100]; createProfile and updateScore   *)
(* reject scores above 100, a repayment never lifts a score above 100 and   *)
(* a default never takes it below 0.                                        *)
C9_ScoreInRange ==
    /\ \A u \in Users :
          creditProfiles[u].score >= MIN_SCORE /\ creditProfiles[u].score <= MAX_SCORE
    /\ \A c \in Callers, u \in Users, s \in AllScores :
          s > MAX_SCORE =>
              /\ createProfile(Cur, c, u, s).err # ""
              /\ updateScore(Cur, c, u, s).err # ""

\* one profile was lifted to the cap by a repayment, another taken to the
\* floor by a default
C9_Witness ==
    \E u, v \in Users :
        /\ creditProfiles[u].score = MAX_SCORE
        /\ creditProfiles[u].successfulRepayments > 0
        /\ creditProfiles[v].isActive
        /\ creditProfiles[v].score = MIN_SCORE
        /\ creditProfiles[v].defaultedLoans > 0

(* C10: totalLoans, successfulRepayments and defaultedLoans never decrease  *)
(* and an active profile stays active: no operation deletes or re-creates a *)
(* profile or resets its counters.                                          *)
C10_CountersMonotone ==
    [][\A u \in Users :
          /\ creditProfiles'[u].totalLoans >= creditProfiles[u].totalLoans
          /\ creditProfiles'[u].successfulRepayments
                >= creditProfiles[u].successfulRepayments
          /\ creditProfiles'[u].defaultedLoans >= creditProfiles[u].defaultedLoans
          /\ creditProfiles[u].isActive => creditProfiles'[u].isActive]_vars

\* a profile with all three counters raised refuses to be created again
C10_Witness ==
    \E u \in Users :
        /\ creditProfiles[u].isActive
        /\ creditProfiles[u].totalLoans > 0
        /\ creditProfiles[u].successfulRepayments > 0
        /\ creditProfiles[u].defaultedLoans > 0
        /\ createProfile(Cur, Owner, u, DEFAULT_SCORE).err = "Profile already exists"

\* the callers mintBadge accepts
Minters(S) == S.authorizedMinters \cup {Owner}

\* the credentials stored for a principal, as token ids
BadgesOf(S, u) == {t \in DOMAIN S.badgeOwner : S.badgeOwner[t] = u}

\* a principal with the flag set holds exactly one credential, and a further
\* mintBadge for it fails and stores nothing; from an accepted minter the
\* failure is "Address already has a badge", from any other caller the
\* authorization check fails first
AtMostOneCredential ==
    \A u \in Users :
        /\ Cardinality(BadgesOf(Cur, u)) = (IF hasBadge[u] THEN 1 ELSE 0)
        /\ hasBadge[u] =>
              \A c \in Callers \cup {Pool}, s \in BadgeScores \cup IssuanceScores,
                 n \in BadgeRepayments \cup {BADGE_MIN_REPAYMENTS} :
                  mintBadge(Cur, c, u, s, n)
                      = Revert(Cur, IF c \in Minters(Cur)
                                    THEN "Address already has a badge"
                                    ELSE "Not authorized to mint")

SoulboundRejections ==
    \A t \in DOMAIN badgeOwner, c \in Holders, to \in Holders \cup {ZeroAddr} :
        LET refusal == Revert(Cur, IF to = ZeroAddr THEN "ERC721InvalidReceiver"
                                   ELSE "SenteBadge: Soulbound token cannot be transferred")
            unapproved == Revert(Cur, "SenteBadge: Soulbound token cannot be approved")
        IN  /\ \A from \in {badgeOwner[t], c} :
                  /\ transferFrom(Cur, c, from, to, t) = refusal
                  /\ safeTransferFrom(Cur, c, from, to, t) = refusal
            /\ approve(Cur, c, to, t) = unapproved
            /\ \A b \in BOOLEAN : setApprovalForAll(Cur, c, to, b) = unapproved

(* C12: every attempted transfer, approval or approval-for-all of a minted  *)
(* credential fails with the soulbound error and changes nothing, and the   *)
(* owner of a credential is the principal it was minted to in every later   *)
(* state.                                                                   *)
C12_Soulbound ==
    /\ []SoulboundRejections
    /\ [][\A t \in DOMAIN badgeOwner :
              /\ t \in DOMAIN badgeOwner'
              /\ badgeOwner'[t] = badgeOwner[t]]_vars

\* two principals hold credentials and the first holder's transfer of its
\* own credential to the second is refused
C12_Witness ==
    /\ Len(badgeOwner) = 2
    /\ transferFrom(Cur, badgeOwner[1], badgeOwner[1], badgeOwner[2], 1).err
          = "SenteBadge: Soulbound token cannot be transferred"
    /\ approve(Cur, badgeOwner[1], badgeOwner[2], 1).err # ""

(* C13: every call to a state-changing or fund-moving pool operation made   *)
(* while a guarded pool operation is executing (from the Issuer's callback  *)
(* to the borrower inside repayLoan) is rejected.                           *)
C13_NestedCallsRejected ==
    \A e \in nestedLog : e.guarded => e.err # ""

\* the caller has an Active loan
hasActiveLoan(S, b) ==
    \E i \in DOMAIN S.borrowerLoans[b] : S.borrowerLoans[b][i].isActive

(* C14 as stated: with an Active loan of the caller, requestLoan(amount)    *)
(* fails with "Active loan exists" for every amount and appends no loan.    *)
C14_ActiveLoanExistsAnyAmount ==
    \A b \in Users, a \in LoanAmounts :
        hasActiveLoan(Cur, b) =>
            /\ requestLoan(Cur, b, a).err = "Active loan exists"
            /\ requestLoan(Cur, b, a).st.borrowerLoans = borrowerLoans

(* C14 as amended: with an Active loan of the caller, requestLoan(amount)   *)
(* fails for every amount and appends no loan; the failure is "Active loan  *)
(* exists" for an amount within [MIN_LOAN_AMOUNT, MAX_LOAN_AMOUNT], "Amount *)
(* too low" below that range and "Amount exceeds maximum" above it.         *)
C14_ActiveLoanRefused ==
    \A b \in Users, a \in LoanAmounts :
        hasActiveLoan(Cur, b) =>
            LET r == requestLoan(Cur, b, a)
            IN  /\ r.st = Cur
                /\ r.err = (IF a < MIN_LOAN_AMOUNT THEN "Amount too low"
                            ELSE IF a > MAX_LOAN_AMOUNT THEN "Amount exceeds maximum"
                            ELSE "Active loan exists")

\* a borrower with an Active loan whose score and the pool's liquidity would
\* allow a further loan
C14_Witness ==
    \E b \in Users :
        /\ hasActiveLoan(Cur, b)
        /\ getScore(Cur, b) >= MIN_CREDIT_SCORE
        /\ getAvailableLiquidity(Cur) >= LoanAmount
        /\ requestLoan(Cur, b, LoanAmount).err = "Active loan exists"

\* the score the Registry holds for a principal: 50 without a profile
scoreOnRecord(b) ==
    IF creditProfiles[b].isActive THEN creditProfiles[b].score ELSE DEFAULT_SCORE

(* C15: requestLoan by a principal whose Registry score is below 60, a      *)
(* principal without a profile (score 50) included, fails and changes       *)
(* nothing: no loan, no token moved, no Registry write.  The failure is     *)
(* "Credit score too low" once the checks that precede the score check pass *)
(* (amount within range, no Active loan), whatever the pool's liquidity.    *)
C15_LowScoreRefused ==
    \A b \in Users, a \in LoanAmounts :
        scoreOnRecord(b) < MIN_CREDIT_SCORE =>
            LET r == requestLoan(Cur, b, a)
            IN  /\ r.err # ""
                /\ r.st = Cur
                /\ (a >= MIN_LOAN_AMOUNT /\ a <= MAX_LOAN_AMOUNT
                        /\ ~hasActiveLoan(Cur, b))
                      => r.err = "Credit score too low"

\* the pool can lend; one principal has a profile below the threshold, the
\* other has none, and both are refused for their score
C15_Witness ==
    /\ getAvailableLiquidity(Cur) >= LoanAmount
    /\ \E b, c \in Users :
          /\ creditProfiles[b].isActive
          /\ creditProfiles[b].score < MIN_CREDIT_SCORE
          /\ ~creditProfiles[c].isActive
          /\ requestLoan(Cur, b, LoanAmount).err = "Credit score too low"
          /\ requestLoan(Cur, c, LoanAmount).err = "Credit score too low"

(* C16: a successful requestLoan(amount) appends exactly one Active loan    *)
(* for the caller with principal = amount, interest = calculateInterest of  *)
(* the amount and the caller's Registry score at the call, dueDate = now +  *)
(* 30 days; the caller's totalLoans goes up by 1, totalBorrowed by amount,  *)
(* and exactly amount moves from the pool's balance to the caller.          *)
C16_RequestLoanEffect ==
    \A b \in Users, a \in LoanAmounts :
        LET r == requestLoan(Cur, b, a) IN
        r.err = "" =>
            /\ r.st.borrowerLoans =
                  [borrowerLoans EXCEPT ![b] = Append(@,
                      [amount |-> a,
                       interestAmount |-> calculateInterest(a, scoreOnRecord(b)),
                       startTime |-> now,
                       dueDate |-> now + LOAN_DURATION,
                       isActive |-> TRUE,
                       isRepaid |-> FALSE,
                       borrower |-> b])]
            /\ r.st.activeLoanCount = [activeLoanCount EXCEPT ![b] = 1]
            /\ r.st.creditProfiles =
                  [creditProfiles EXCEPT ![b].totalLoans = @ + 1]
            /\ r.st.totalBorrowed = totalBorrowed + a
            /\ r.st.usdcBalance =
                  [usdcBalance EXCEPT ![Pool] = @ - a, ![b] = @ + a]
            /\ r.st.totalDeposits = totalDeposits
            /\ r.st.totalRepaid = totalRepaid
            /\ r.st.lenders = lenders

\* a borrower holds a loan priced at an earlier score and can take the next
\* one at a different price for the same amount
C16_Witness ==
    \E b \in Users :
        /\ Len(borrowerLoans[b]) > 0
        /\ requestLoan(Cur, b, LoanAmount).err = ""
        /\ borrowerLoans[b][Len(borrowerLoans[b])].amount = LoanAmount
        /\ borrowerLoans[b][Len(borrowerLoans[b])].interestAmount
              # calculateInterest(LoanAmount, scoreOnRecord(b))

Min(a, b) == IF a <= b THEN a ELSE b

(* C17: a successful repayLoan(loanId) moves exactly principal + interest   *)
(* from the caller to the pool, makes the loan Repaid, adds principal +     *)
(* interest to totalRepaid, raises the borrower's successfulRepayments by 1 *)
(* and sets the borrower's score to min(score + 2, 100).                    *)
C17_RepayLoanEffect ==
    \A l \in OwnLoans :
        LET b == l[1]
            loan == loanOf(Cur, b, l[2])
            r == repayLoan(Cur, b, l[2])
        IN  r.err = "" =>
              /\ r.st.usdcBalance =
                    [usdcBalance EXCEPT ![b] = @ - owed(loan), ![Pool] = @ + owed(loan)]
              /\ r.st.borrowerLoans =
                    [borrowerLoans EXCEPT ![b][l[2] + 1].isActive = FALSE,
                                          ![b][l[2] + 1].isRepaid = TRUE]
              /\ loanStatus(loanOf(r.st, b, l[2])) = "Repaid"
              /\ r.st.activeLoanCount = [activeLoanCount EXCEPT ![b] = 0]
              /\ r.st.totalRepaid = totalRepaid + owed(loan)
              /\ r.st.totalBorrowed = totalBorrowed
              /\ r.st.totalDeposits = totalDeposits
              /\ r.st.creditProfiles[b].successfulRepayments
                    = creditProfiles[b].successfulRepayments + 1
              /\ r.st.creditProfiles[b].score
                    = Min(creditProfiles[b].score + REPAYMENT_IMPROVEMENT, MAX_SCORE)
              /\ r.st.creditProfiles[b].totalLoans = creditProfiles[b].totalLoans
              /\ r.st.creditProfiles[b].defaultedLoans
                    = creditProfiles[b].defaultedLoans

\* a borrower whose score reached the cap through repayments can repay the
\* loan it holds
C17_Witness ==
    \E l \in OwnLoans :
        /\ creditProfiles[l[1]].score = MAX_SCORE
        /\ creditProfiles[l[1]].successfulRepayments >= 2
        /\ repayLoan(Cur, l[1], l[2]).err = ""

\* the credential stored for a principal that holds one
badgeOf(S, u) == S.badges[CHOOSE t \in BadgesOf(S, u) : TRUE]

(* C18: when a borrower with zero defaults and two repaid loans repays a    *)
(* third one through the pool, with the badge contract set and the pool an  *)
(* authorized minter, the borrower holds a credential afterwards; the one   *)
(* minted by this repayment records the score after the repayment and 3     *)
(* repayments, its tier is the one the thresholds give for them, and it is  *)
(* Bronze if that score is below 70.                                        *)
C18_ThirdRepaymentMints ==
    \A l \in OwnLoans :
        LET b == l[1]
            r == repayLoan(Cur, b, l[2])
        IN  (/\ r.err = ""
             /\ creditProfiles[b].successfulRepayments = 2
             /\ creditProfiles[b].defaultedLoans = 0
             /\ senteBadge # ZeroAddr
             /\ Pool \in authorizedMinters) =>
                /\ hasSenteBadge(r.st, b)
                /\ Cardinality(BadgesOf(r.st, b)) = 1
                /\ ~hasBadge[b] =>
                      /\ badgeOf(r.st, b).creditScore = r.st.creditProfiles[b].score
                      /\ badgeOf(r.st, b).repaymentsCount = 3
                      /\ badgeOf(r.st, b).tier
                            = _determineTier(r.st.creditProfiles[b].score, 3)
                      /\ r.st.creditProfiles[b].score < 70
                            => badgeOf(r.st, b).tier = "Bronze"

\* a borrower with three repayments and no default holds the credential the
\* pool minted on the third one
C18_Witness ==
    \E u \in Users :
        /\ creditProfiles[u].successfulRepayments = 3
        /\ creditProfiles[u].defaultedLoans = 0
        /\ Len(borrowerLoans[u]) = 3
        /\ hasBadge[u]
        /\ badgeOf(Cur, u).repaymentsCount = 3
        /\ badgeOf(Cur, u).creditScore = creditProfiles[u].score
        /\ badgeOf(Cur, u).tier = "Bronze"

\* the credentials stored by the badge contract
Credentials(S) ==
    [nextTokenId |-> S.nextTokenId, badges |-> S.badges,
     badgeOwner |-> S.badgeOwner, hasBadge |-> S.hasBadge]

(* C19: the pool's trigger after a repayment mints a credential only when,  *)
(* with the repayment recorded, successfulRepayments >= 3 and               *)
(* defaultedLoans = 0 (and the borrower holds none); in every other case,   *)
(* and whenever the borrower already holds a credential, it does nothing    *)
(* and raises no error, so the repayment succeeds.                          *)
C19_TriggerMintsOnlyWhenDue ==
    /\ \A u \in Users :
          (\/ creditProfiles[u].successfulRepayments < BADGE_MIN_REPAYMENTS
           \/ creditProfiles[u].defaultedLoans > 0
           \/ hasBadge[u]) => _checkAndMintBadge(Cur, u) = Ok(Cur)
    /\ \A l \in OwnLoans :
          LET b == l[1]
              r == repayLoan(Cur, b, l[2])
              repayments == creditProfiles[b].successfulRepayments + 1
          IN  /\ (r.err = "" /\ Credentials(r.st) # Credentials(Cur)) =>
                    /\ repayments >= BADGE_MIN_REPAYMENTS
                    /\ creditProfiles[b].defaultedLoans = 0
                    /\ ~hasBadge[b]
                    /\ Len(r.st.badges) = Len(badges) + 1
              /\ (/\ ReachesBadgeCheck(b, l[2])
                  /\ \/ repayments < BADGE_MIN_REPAYMENTS
                     \/ creditProfiles[b].defaultedLoans > 0
                     \/ hasBadge[b]) =>
                    /\ r.err = ""
                    /\ Credentials(r.st) = Credentials(Cur)
                    /\ loanStatus(loanOf(r.st, b, l[2])) = "Repaid"

\* with the badge contract set and the pool authorized, a borrower with three
\* repayments has no credential because of a default, and its next repayment
\* goes through without one
C19_Witness ==
    \E l \in OwnLoans :
        /\ senteBadge # ZeroAddr
        /\ Pool \in authorizedMinters
        /\ creditProfiles[l[1]].successfulRepayments >= BADGE_MIN_REPAYMENTS
        /\ creditProfiles[l[1]].defaultedLoans > 0
        /\ ~hasBadge[l[1]]
        /\ repayLoan(Cur, l[1], l[2]).err = ""

\* running the trigger a second time succeeds and changes nothing, and a
\* repayment by a principal that holds a credential leaves the credentials
\* as they are
TriggerIdempotent ==
    /\ \A u \in Users :
          LET r1 == _checkAndMintBadge(Cur, u) IN
          r1.err = "" =>
              /\ _checkAndMintBadge(r1.st, u) = Ok(r1.st)
              /\ Cardinality(BadgesOf(r1.st, u)) <= 1
    /\ \A l \in OwnLoans :
          LET r == repayLoan(Cur, l[1], l[2]) IN
          (r.err = "" /\ BadgesOf(Cur, l[1]) # {}) =>
              Credentials(r.st) = Credentials(Cur)

(* C20: running the post-repayment mint trigger again for a principal that  *)
(* holds a credential (a 4th or 5th repayment after the mint on the 3rd, or *)
(* a repayment after an explicit mint by the administrator) leaves exactly  *)
(* one stored credential for that principal, with its score, repayment      *)
(* count, mint time and tier unchanged.                                     *)
C20_IssuanceIdempotent ==
    /\ []TriggerIdempotent
    /\ [][\A t \in DOMAIN badges :
              /\ t \in DOMAIN badges'
              /\ badges'[t] = badges[t]
              /\ {x \in DOMAIN badgeOwner' : badgeOwner'[x] = badgeOwner[t]} = {t}]_vars

\* the credential minted on the third repayment is still the borrower's only
\* one after a further repayment
C20_Witness ==
    \E l \in OwnLoans :
        /\ BadgesOf(Cur, l[1]) # {}
        /\ badgeOf(Cur, l[1]).repaymentsCount = BADGE_MIN_REPAYMENTS
        /\ creditProfiles[l[1]].successfulRepayments > BADGE_MIN_REPAYMENTS
        /\ creditProfiles[l[1]].defaultedLoans = 0
        /\ Cardinality(BadgesOf(Cur, l[1])) = 1
        /\ loanStatus(loanOf(Cur, l[1], l[2])) = "Repaid"

\* scores and repayment counts passed to mintBadge: around the threshold of
\* 60, and the top tier
MintScores == BadgeScores \cup {BADGE_MIN_SCORE}
MintRepayments == BadgeRepayments \cup {BADGE_MIN_REPAYMENTS}

\* mintBadge called by any principal or by the pool, for any recipient:
\* the first failing check in the order caller, recipient, credential
\* flag, score decides the error, a failed call stores nothing and a
\* successful one stores the credential with the score passed
MintChecks ==
    \A c \in Callers \cup {Pool}, s \in MintScores, n \in MintRepayments :
        /\ \A u \in Users :
              LET r == mintBadge(Cur, c, u, s, n)
                  failure ==
                      IF ~((c = Pool /\ Pool \in authorizedMinters) \/ c = Owner)
                      THEN "Not authorized to mint"
                      ELSE IF hasBadge[u] THEN "Address already has a badge"
                      ELSE IF s < 60 THEN "Credit score too low"
                      ELSE ""
              IN  /\ r.err = failure
                  /\ r.err # "" => r.st = Cur
                  /\ r.err = "" =>
                        /\ r.st.hasBadge = [hasBadge EXCEPT ![u] = TRUE]
                        /\ r.st.badgeOwner = Append(badgeOwner, u)
                        /\ Len(r.st.badges) = Len(badges) + 1
                        /\ r.st.badges[Len(r.st.badges)].creditScore = s
                        /\ r.st.badges[Len(r.st.badges)].repaymentsCount = n
        /\ mintBadge(Cur, c, ZeroAddr, s, n).err # ""
        /\ mintBadge(Cur, c, ZeroAddr, s, n).st = Cur

(* C22: mintBadge succeeds only when the caller is the pool as an           *)
(* authorized minter or the owner, the recipient holds no credential and    *)
(* the score is at least 60; it fails with "Not authorized to mint",        *)
(* "Address already has a badge" or "Credit score too low" for the first of *)
(* these that does not hold.  Every stored credential has a score of at     *)
(* least 60.                                                                *)
C22_MintPreconditions ==
    /\ MintChecks
    /\ \A t \in DOMAIN badges : badges[t].creditScore >= 60

\* one principal holds a credential; for another the owner's mint with a
\* score of 59 is refused for the score and the pool's mint with 60 would
\* be accepted
C22_Witness ==
    \E u, v \in Users :
        /\ hasBadge[v]
        /\ ~hasBadge[u]
        /\ Pool \in authorizedMinters
        /\ mintBadge(Cur, Owner, u, 59, 10).err = "Credit score too low"
        /\ mintBadge(Cur, Pool, u, 60, 3).err = ""
        /\ mintBadge(Cur, u, u, 95, 10).err = "Not authorized to mint"

\* the tier the thresholds give for a score and a number of repayments
statedTier(score, repayments) ==
    IF score >= 90 /\ repayments >= 10 THEN "Platinum"
    ELSE IF score >= 80 /\ repayments >= 7 THEN "Gold"
    ELSE IF score >= 70 /\ repayments >= 5 THEN "Silver"
    ELSE "Bronze"

\* every stored credential carries the tier of its own score and repayment
\* count, and so does the credential any further mint would store
TierOfCredentials ==
    /\ \A t \in DOMAIN badges :
          badges[t].tier = statedTier(badges[t].creditScore,
                                      badges[t].repaymentsCount)
    /\ \A u \in Users, s \in TierScores, n \in TierRepayments :
          LET r == mintBadge(Cur, Owner, u, s, n) IN
          r.err = "" =>
              r.st.badges = Append(badges,
                                   [creditScore |-> s, repaymentsCount |-> n,
                                    mintedAt |-> now, tier |-> statedTier(s, n)])

(* C24: the tier stored in a credential is a function of the score and the  *)
(* repayment count passed at mint: Platinum if score >= 90 and repayments   *)
(* >= 10, else Gold if score >= 80 and repayments >= 7, else Silver if      *)
(* score >= 70 and repayments >= 5, else Bronze; no later step changes a    *)
(* stored credential.                                                       *)
C24_TierFixedAtMint ==
    /\ []TierOfCredentials
    /\ [][\A t \in DOMAIN badges :
              t \in DOMAIN badges' /\ badges'[t] = badges[t]]_vars

\* two credentials minted with the same score carry different tiers because
\* of their repayment counts, the first one minted before the second
C24_Witness ==
    /\ Len(badges) = 2
    /\ badges[1].creditScore = badges[2].creditScore
    /\ badges[1].tier = "Platinum"
    /\ badges[2].tier = "Silver"

(* C25: in every reachable state getUtilizationRate() returns without     *)
(* failure a percentage in [0,100]: 0 when totalDeposits = 0, otherwise     *)
(* floor((totalBorrowed - totalRepaid) * 100 / totalDeposits), also after   *)
(* loans were repaid with interest.                                         *)
C25_UtilizationRate ==
    LET r == getUtilizationRate(Cur)
    IN  /\ r.err = ""
        /\ r.val >= 0 /\ r.val <= 100
        /\ r.val = (IF totalDeposits = 0 THEN 0
                    ELSE ((totalBorrowed - totalRepaid) * 100) \div totalDeposits)

\* amounts passed to deposit and withdraw: nothing, one unit, a loan, a
\* deposit, two deposits
PositionAmounts == DepositAmounts \cup {1, LoanAmount, 2 * DepositAmount}

(* C26: from any state, a successful deposit(X) followed at once by         *)
(* withdraw(X) of the same lender succeeds and leaves that lender's         *)
(* deposited amount, totalDeposits and the pool's held balance as they were *)
(* before the deposit.                                                      *)
C26_DepositWithdrawRoundTrip ==
    \A c \in Users, a \in PositionAmounts :
        LET d == deposit(Cur, c, a) IN
        d.err = "" =>
            LET w == withdraw(d.st, c, a)
            IN  /\ d.st.lenders[c].deposited = lenders[c].deposited + a
                /\ w.err = ""
                /\ w.st.lenders = lenders
                /\ w.st.totalDeposits = totalDeposits
                /\ w.st.usdcBalance = usdcBalance

\* deposits are lent out, so that a lender cannot withdraw a deposit's worth
\* now, but can deposit that much and withdraw it again
C26_Witness ==
    \E c \in Users :
        /\ lenders[c].deposited >= DepositAmount
        /\ usdcBalance[Pool] < DepositAmount
        /\ withdraw(Cur, c, DepositAmount).err = "Insufficient pool liquidity"
        /\ deposit(Cur, c, DepositAmount).err = ""
        /\ withdraw(deposit(Cur, c, DepositAmount).st, c, DepositAmount).err = ""

(* C27: withdraw(amount) fails with "Amount must be greater than 0" if      *)
(* amount is 0, else with "Insufficient balance" if the caller's deposited  *)
(* amount is below amount, else with "Insufficient pool liquidity" if the   *)
(* pool's held balance is below amount; otherwise it takes amount off the   *)
(* caller's deposited amount and off totalDeposits and transfers amount to  *)
(* the caller.  No lender withdraws more than its net deposit.              *)
C27_WithdrawChecks ==
    \A c \in Users :
        /\ lenders[c].deposited >= 0
        /\ \A a \in PositionAmounts :
              LET r == withdraw(Cur, c, a)
              IN  IF a <= 0
                  THEN r = Revert(Cur, "Amount must be greater than 0")
                  ELSE IF lenders[c].deposited < a
                  THEN r = Revert(Cur, "Insufficient balance")
                  ELSE IF usdcBalance[Pool] < a
                  THEN r = Revert(Cur, "Insufficient pool liquidity")
                  ELSE r = Ok([Cur EXCEPT
                                !.lenders[c].deposited = @ - a,
                                !.totalDeposits = @ - a,
                                !.usdcBalance[Pool] = @ - a,
                                !.usdcBalance[c] = @ + a])

\* with deposits lent out, one lender is refused for the pool's liquidity,
\* a principal without a position for its balance, and a withdrawal of
\* what the pool still holds is accepted
C27_Witness ==
    \E c, d \in Users :
        /\ withdraw(Cur, c, DepositAmount).err = "Insufficient pool liquidity"
        /\ withdraw(Cur, d, DepositAmount).err = "Insufficient balance"
        /\ withdraw(Cur, c, 0).err = "Amount must be greater than 0"
        /\ withdraw(Cur, c, 1).err = ""

(* C28: getRepaymentRate(principal) returns 0 for a principal without a   *)
(* profile or with totalLoans = 0, otherwise floor(successfulRepayments *   *)
(* 100 / totalLoans), and the returned rate is in [0,100] in every          *)
(* reachable state.                                                         *)
C28_RepaymentRate ==
    \A u \in Users :
        LET rate == getRepaymentRate(Cur, u)
        IN  /\ rate = (IF ~creditProfiles[u].isActive
                            \/ creditProfiles[u].totalLoans = 0
                       THEN 0
                       ELSE (creditProfiles[u].successfulRepayments * 100)
                                \div creditProfiles[u].totalLoans)
            /\ rate >= 0 /\ rate <= 100

\* repayLoan of an Active loan by its borrower at the current instant: up to
\* the last instant of the grace period it succeeds when the payment can be
\* collected, with effects that do not depend on the instant; the default
\* path is taken after that instant and only then
RepaymentWithinGrace(b, id) ==
    LET loan == loanOf(Cur, b, id)
        r == repayLoan(Cur, b, id)
    IN  /\ (r.err = "Loan defaulted - past grace period")
              <=> now > loan.dueDate + 7 * Day
        /\ (/\ now <= loan.dueDate + 7 * Day
             /\ usdcBalance[b] >= owed(loan)
             /\ usdcAllowance[b] >= owed(loan)
             /\ Pool \in oracles
             /\ senteBadge = ZeroAddr) => r.err = ""
        /\ r.err = "" =>
              /\ r.st.usdcBalance =
                    [usdcBalance EXCEPT ![b] = @ - owed(loan),
                                        ![Pool] = @ + owed(loan)]
              /\ r.st.totalRepaid = totalRepaid + owed(loan)
              /\ loanStatus(loanOf(r.st, b, id)) = "Repaid"
              /\ r.st.creditProfiles[b] =
                    [creditProfiles[b] EXCEPT
                        !.score = Min(@ + REPAYMENT_IMPROVEMENT, MAX_SCORE),
                        !.successfulRepayments = @ + 1,
                        !.lastUpdated = IF creditProfiles[b].score < MAX_SCORE
                                        THEN now ELSE @]

(* C29: repayLoan on an Active loan succeeds at every instant up to dueDate *)
(* + 7 days, after the due date and at dueDate + 7 days itself included,    *)
(* with the effects of a repayment on time: principal + interest collected, *)
(* the score raised by 2 up to 100, no default recorded.  Only an instant   *)
(* after dueDate + 7 days takes the default path.                           *)
C29_RepaymentWithinGrace ==
    \A l \in OwnLoans :
        loanOf(Cur, l[1], l[2]).isActive => RepaymentWithinGrace(l[1], l[2])

\* a loan was repaid at the last instant of its grace period: the Registry
\* holds the repayment, the raised score and no default
C29_Witness ==
    \E l \in OwnLoans :
        LET loan == loanOf(Cur, l[1], l[2]) IN
        /\ loanStatus(loan) = "Repaid"
        /\ creditProfiles[l[1]].lastUpdated = loan.dueDate + REPAYMENT_GRACE_PERIOD
        /\ creditProfiles[l[1]].successfulRepayments = 1
        /\ creditProfiles[l[1]].defaultedLoans = 0
        /\ creditProfiles[l[1]].score \in {77, MAX_SCORE}

\* amounts passed to requestLoan: the floor, the ceiling, their neighbours
\* outside the range, and an amount in between
RequestAmounts == LoanAmounts \cup {MIN_LOAN_AMOUNT, MAX_LOAN_AMOUNT}

\* the first precondition of requestLoan that is violated, in the order of
\* the checks, "" if none is
firstViolation(b, amount) ==
    IF amount < MIN_LOAN_AMOUNT THEN "Amount too low"
    ELSE IF amount > MAX_LOAN_AMOUNT THEN "Amount exceeds maximum"
    ELSE IF hasActiveLoan(Cur, b) THEN "Active loan exists"
    ELSE IF scoreOnRecord(b) < 60 THEN "Credit score too low"
    ELSE IF usdcBalance[Pool] < amount THEN "Insufficient pool liquidity"
    ELSE ""

(* C30: a rejected requestLoan reports a precondition that is violated, the *)
(* first one in the order amount too low, amount too high, active loan,     *)
(* score too low, insufficient liquidity when several are; requestLoan      *)
(* succeeds if and only if none of the five is violated and the pool is an  *)
(* oracle of the Registry.                                                  *)
C30_FirstViolationReported ==
    \A b \in Users, a \in RequestAmounts :
        LET r == requestLoan(Cur, b, a)
        IN  /\ firstViolation(b, a) # "" => r = Revert(Cur, firstViolation(b, a))
            /\ r.err = "" <=> (firstViolation(b, a) = "" /\ Pool \in oracles)
            /\ (firstViolation(b, a) = "" /\ Pool \notin oracles) =>
                  r = Revert(Cur, "AccessControlUnauthorizedAccount")

\* a borrower with an Active loan asks again while the pool cannot lend: the
\* active loan is reported for an amount in range and the amount for one
\* above the ceiling; a principal without a profile is refused for its
\* score, not for the liquidity
C30_Witness ==
    \E b, c \in Users :
        /\ hasActiveLoan(Cur, b)
        /\ usdcBalance[Pool] < LoanAmount
        /\ requestLoan(Cur, b, LoanAmount).err = "Active loan exists"
        /\ requestLoan(Cur, b, MAX_LOAN_AMOUNT + 1).err = "Amount exceeds maximum"
        /\ ~creditProfiles[c].isActive
        /\ requestLoan(Cur, c, LoanAmount).err = "Credit score too low"

\* every mutating Registry operation called by a principal outside the
\* oracle set fails with the authorization error and changes nothing
UnauthorizedWritesRejected ==
    \A c \in Holders, u \in Users :
        c \notin oracles =>
            LET refusal == Revert(Cur, "AccessControlUnauthorizedAccount")
            IN  /\ \A s \in AllScores \cup IssuanceScores :
                      /\ createProfile(Cur, c, u, s) = refusal
                      /\ updateScore(Cur, c, u, s) = refusal
                /\ recordLoan(Cur, c, u) = refusal
                /\ recordRepayment(Cur, c, u) = refusal
                /\ recordDefault(Cur, c, u) = refusal

(* C21 as stated: every mutating Registry operation called by a principal   *)
(* outside the oracle set fails with the authorization error and changes no *)
(* profile, and the oracle set is changed by the administrator only: no    *)
(* call of another principal changes it, a call about itself included.      *)
C21_OnlyGrantsChangeOracles ==
    /\ UnauthorizedWritesRejected
    /\ \A c \in Callers \ {Owner}, a \in Holders :
          /\ grantOracleRole(Cur, c, a).st.oracles = oracles
          /\ revokeOracleRole(Cur, c, a).st.oracles = oracles
          /\ renounceOracleRole(Cur, c, a).st.oracles = oracles

\* the role operations: only the administrator's grant adds a principal,
\* and it adds the named one; a principal leaves the set by the
\* administrator's revoke or by its own renounce, which removes nobody else
RoleAdministration ==
    \A c \in Callers, a \in Holders :
        LET g == grantOracleRole(Cur, c, a)
            v == revokeOracleRole(Cur, c, a)
            n == renounceOracleRole(Cur, c, a)
        IN  /\ c # Owner =>
                  /\ g = Revert(Cur, "AccessControlUnauthorizedAccount")
                  /\ v = Revert(Cur, "AccessControlUnauthorizedAccount")
            /\ c = Owner =>
                  /\ g = Ok([Cur EXCEPT !.oracles = oracles \cup {a}])
                  /\ v = Ok([Cur EXCEPT !.oracles = oracles \ {a}])
            /\ n = (IF a = c THEN Ok([Cur EXCEPT !.oracles = oracles \ {c}])
                    ELSE Revert(Cur, "AccessControlBadConfirmation"))

(* C21 as amended: every mutating Registry operation called by a principal  *)
(* outside the oracle set fails with the authorization error and changes    *)
(* nothing; a principal enters the oracle set only by a grant of the        *)
(* administrator, never by a call of its own, and leaves it only by the     *)
(* administrator's revoke or by renouncing its own role.                    *)
C21_OracleSetAdministered ==
    /\ UnauthorizedWritesRejected
    /\ RoleAdministration

\* a principal that was granted the role writes to the Registry after the
\* deployer renounced it, and a principal without the role is refused
C21_Witness ==
    \E u, v \in Users :
        /\ u \in oracles
        /\ v \notin oracles
        /\ Owner \notin oracles
        /\ creditProfiles["alice"].isActive
        /\ recordLoan(Cur, u, "alice").err = ""
        /\ recordLoan(Cur, v, "alice").err = "AccessControlUnauthorizedAccount"

\* the rate the schedule gives for a score, in percent
statedRate(score) ==
    IF score >= 91 THEN 5
    ELSE IF score >= 81 THEN 6
    ELSE IF score >= 71 THEN 8
    ELSE 10

(* C23 as stated: for every amount and every score in [0,100],              *)
(* calculateInterest(amount, score) returns floor(amount * r / 100) with r  *)
(* the rate of the score's band, and for a fixed amount a higher score      *)
(* never returns more.                                                      *)
C23_InterestEveryAmount ==
    viewResult.done =>
        /\ viewResult.err = ""
        /\ viewResult.val
              = (viewArgs.amount * statedRate(viewArgs.creditScore)) \div 100
        /\ \A s \in InterestScores :
              s >= viewArgs.creditScore =>
                  /\ calculateInterestCall(viewArgs.amount, s).err = ""
                  /\ calculateInterestCall(viewArgs.amount, s).val
                        <= viewResult.val

\* the call returns the truncated interest of the score's band whenever
\* amount * r fits in a uint256, and fails with an arithmetic panic otherwise
InterestWithinWord ==
    viewResult.done =>
        LET amount == viewArgs.amount
            r == statedRate(viewArgs.creditScore)
        IN  IF amount <= Unlimited \div r
            THEN /\ viewResult.err = ""
                 /\ viewResult.val = (amount * r) \div 100
                 /\ \A s \in InterestScores :
                       s >= viewArgs.creditScore =>
                           /\ calculateInterestCall(amount, s).err = ""
                           /\ calculateInterestCall(amount, s).val
                                 <= viewResult.val
            ELSE viewResult.err = "Panic(0x11)"

(* C23 as amended: for every score in [0,100] and every amount with         *)
(* amount * r at most the largest uint256, calculateInterest(amount, score) *)
(* returns floor(amount * r / 100) with r = 5 for score >= 91, 6 for        *)
(* 81..90, 8 for 71..80 and 10 otherwise, and a higher score never returns  *)
(* more for the same amount; for a larger amount the call fails with an     *)
(* arithmetic panic.  The call writes no storage.                           *)
C23_InterestSchedule ==
    /\ []InterestWithinWord
    /\ [][contractVars' = contractVars]_vars

\* an amount whose 6% interest is truncated was priced for a score of 85
C23_Witness ==
    /\ viewResult.done
    /\ viewArgs.amount = LoanAmount + 5
    /\ viewArgs.creditScore = 85
    /\ viewResult.val = (6 * (LoanAmount + 5)) \div 100
    /\ (6 * (LoanAmount + 5)) % 100 # 0

\* the failures of the token's transfer functions
TransferFailures == {"ERC20InsufficientAllowance", "ERC20InsufficientBalance"}

\* the call was refused and the storage is as it was before the call
Aborted(r, reasons) == r \in {Revert(Cur, e) : e \in reasons}

\* a loan the borrower can still repay
Repayable(b, id) ==
    /\ id < Len(borrowerLoans[b])
    /\ loanStatus(loanOf(Cur, b, id)) = "Active"
    /\ ~(now > loanOf(Cur, b, id).dueDate + REPAYMENT_GRACE_PERIOD)

\* the holder cannot pay amount to the pool
CannotPay(c, a) == usdcAllowance[c] < a \/ usdcBalance[c] < a

(* C31: when the token transfer inside a Pool operation cannot be made -    *)
(* deposit or repayLoan by a caller without the funds or the allowance,     *)
(* requestLoan or withdraw for more than the pool holds - the operation     *)
(* fails and lender positions, pool totals, loans, Registry counters and    *)
(* scores are as before; the loan of a failed repayLoan is still Active.    *)
C31_TransferFailureAborts ==
    \A c \in Users :
        /\ \A a \in PositionAmounts \cup RequestAmounts :
              /\ (a > 0 /\ CannotPay(c, a))
                    => Aborted(deposit(Cur, c, a), TransferFailures)
              /\ (a > 0 /\ lenders[c].deposited >= a /\ usdcBalance[Pool] < a)
                    => Aborted(withdraw(Cur, c, a), {"Insufficient pool liquidity"})
              /\ usdcBalance[Pool] < a
                    => Aborted(requestLoan(Cur, c, a),
                               Rejections \cup TransferFailures)
        /\ \A id \in LoanIds :
              (Repayable(c, id) /\ CannotPay(c, owed(loanOf(Cur, c, id))))
                 => /\ Aborted(repayLoan(Cur, c, id), TransferFailures)
                    /\ loanStatus(loanOf(repayLoan(Cur, c, id).st, c, id)) = "Active"

\* a borrower who holds the principal and not the interest cannot repay, and
\* the pool holds less than a lender's position and less than a loan
C31_Witness ==
    /\ \E b \in Users :
          /\ Repayable(b, 0)
          /\ usdcAllowance[b] = Unlimited
          /\ repayLoan(Cur, b, 0).err = "ERC20InsufficientBalance"
    /\ \E c \in Users :
          /\ withdraw(Cur, c, DepositAmount).err = "Insufficient pool liquidity"
          /\ requestLoan(Cur, c, LoanAmount).err # ""
          /\ usdcBalance[Pool] < LoanAmount

\* the loans that are Active after the end of their grace period
LateLoans ==
    {l \in OwnLoans :
        /\ loanOf(Cur, l[1], l[2]).isActive
        /\ now > loanOf(Cur, l[1], l[2]).dueDate + REPAYMENT_GRACE_PERIOD}

\* repayLoan on a late loan and requestLoan by its borrower are refused and
\* change nothing
LockedOut ==
    \A l \in LateLoans :
        /\ Aborted(repayLoan(Cur, l[1], l[2]),
                   {"Loan defaulted - past grace period"})
        /\ \A a \in RequestAmounts :
              Aborted(requestLoan(Cur, l[1], a),
                      {IF a < MIN_LOAN_AMOUNT THEN "Amount too low"
                       ELSE IF a > MAX_LOAN_AMOUNT THEN "Amount exceeds maximum"
                       ELSE "Active loan exists"})

\* a late loan is late and Active after every step
StaysLate ==
    \A l \in LateLoans :
        /\ l[2] < Len(borrowerLoans'[l[1]])
        /\ borrowerLoans'[l[1]][l[2] + 1] = loanOf(Cur, l[1], l[2])
        /\ now' > loanOf(Cur, l[1], l[2]).dueDate + REPAYMENT_GRACE_PERIOD

\* no step adds a default to a profile
NoDefaultRecorded ==
    \A u \in Users :
        creditProfiles'[u].defaultedLoans <= creditProfiles[u].defaultedLoans

InterestCollected(S) ==
    SumOver([p \in LoanRefs(S) |->
                IF S.borrowerLoans[p[1]][p[2]].isRepaid
                THEN S.borrowerLoans[p[1]][p[2]].interestAmount ELSE 0],
            LoanRefs(S))

\* a step that collects interest leaves every lender position and the
\* tracked deposits as they were
InterestStaysInPool ==
    InterestCollected([borrowerLoans |-> borrowerLoans'])
            > InterestCollected(Cur)
        => /\ lenders' = lenders
           /\ totalDeposits' = totalDeposits
           /\ usdcBalance'[Pool] - usdcBalance[Pool]
                 > InterestCollected([borrowerLoans |-> borrowerLoans'])
                       - InterestCollected(Cur)

(* C33: the pool's held balance is totalDeposits plus the interest of the   *)
(* Repaid loans minus the principal of the Active loans minus the total     *)
(* removed by emergencyWithdraw, in every reachable state (tokens reach and *)
(* leave the pool through its own operations only); the interest collected  *)
(* by a repayment is added to no lender position.                           *)
C33_BalanceConservation ==
    /\ [](usdcBalance[Pool]
            = totalDeposits + InterestCollected(Cur) - ActivePrincipal(Cur)
                - emergencyWithdrawn)
    /\ [][InterestStaysInPool]_vars

\* interest was collected, a loan is out, the owner has removed tokens and
\* deposits remain
C33_Witness ==
    /\ InterestCollected(Cur) > 0
    /\ ActivePrincipal(Cur) > 0
    /\ emergencyWithdrawn > 0
    /\ totalDeposits > 0
    /\ usdcBalance[Pool] > 0

\* no loan is out and the owner has removed nothing
PoolAtRest ==
    /\ \A u \in Users : ~hasActiveLoan(Cur, u)
    /\ emergencyWithdrawn = 0

\* the lender takes out all it has deposited
withdrawAll(S, u) == withdraw(S, u, S.lenders[u].deposited)

\* u, then v, withdraw their whole positions
WithdrawInOrder(u, v) ==
    LET first == IF lenders[u].deposited > 0 THEN withdrawAll(Cur, u) ELSE Ok(Cur)
        second == IF lenders[v].deposited > 0 THEN withdrawAll(first.st, v)
                  ELSE Ok(first.st)
    IN  /\ first.err = ""
        /\ second.err = ""
        /\ \A w \in Users : second.st.lenders[w].deposited = 0
        /\ second.st.totalDeposits = 0
        /\ second.st.usdcBalance[u] = usdcBalance[u] + lenders[u].deposited
        /\ second.st.usdcBalance[v] = usdcBalance[v] + lenders[v].deposited

(* C34: in every reachable state with no Active loan and no emergency       *)
(* withdrawal so far, the pool holds at least totalDeposits, and the        *)
(* lenders' withdrawals of their whole deposited amounts all succeed, in    *)
(* either order.                                                            *)
C34_FullWithdrawalAtRest ==
    PoolAtRest =>
        /\ usdcBalance[Pool] >= totalDeposits
        /\ \A u, v \in Users : u # v => WithdrawInOrder(u, v)

\* a lender has a position, a loan was repaid with interest and none is out
C34_Witness ==
    /\ PoolAtRest
    /\ \E u \in Users : lenders[u].deposited > 0 /\ withdrawAll(Cur, u).err = ""
    /\ \E l \in OwnLoans : loanOf(Cur, l[1], l[2]).isRepaid
    /\ usdcBalance[Pool] > totalDeposits

\* the principal of every loan ever created
PrincipalLent(S) ==
    SumOver([p \in LoanRefs(S) |-> S.borrowerLoans[p[1]][p[2]].amount],
            LoanRefs(S))

\* principal and interest of the Repaid loans
RepaidInFull(S) ==
    SumOver([p \in LoanRefs(S) |->
                IF S.borrowerLoans[p[1]][p[2]].isRepaid
                THEN owed(S.borrowerLoans[p[1]][p[2]]) ELSE 0],
            LoanRefs(S))

(* C35: in every reachable state totalBorrowed is the sum of the principal  *)
(* of all loans ever created and totalRepaid the sum of principal plus      *)
(* interest of the Repaid loans; no step lowers either total.               *)
C35_TotalsTrackLoans ==
    /\ [](/\ totalBorrowed = PrincipalLent(Cur)
          /\ totalRepaid = RepaidInFull(Cur))
    /\ [][totalBorrowed' >= totalBorrowed /\ totalRepaid' >= totalRepaid]_vars

\* two loans were repaid and a third is out
C35_Witness ==
    /\ \E b \in Users :
          /\ Len(borrowerLoans[b]) >= 3
          /\ borrowerLoans[b][1].isRepaid
          /\ borrowerLoans[b][2].isRepaid
          /\ borrowerLoans[b][3].isActive
    /\ totalRepaid > 0
    /\ totalBorrowed > totalRepaid

\* the number of a borrower's loans with the given status
loansWithStatus(S, b, status) ==
    Cardinality({i \in DOMAIN S.borrowerLoans[b] :
                    loanStatus(S.borrowerLoans[b][i]) = status})

(* C36: while the Pool alone reports loan events to the Registry, every     *)
(* borrower's totalLoans is the number of loans in its list, its            *)
(* successfulRepayments the number of those that are Repaid, and totalLoans *)
(* - successfulRepayments - defaultedLoans the number that are Active.      *)
C36_CountersMatchLoans ==
    \A b \in Users :
        /\ creditProfiles[b].totalLoans = Len(borrowerLoans[b])
        /\ creditProfiles[b].successfulRepayments
              = loansWithStatus(Cur, b, "Repaid")
        /\ creditProfiles[b].totalLoans - creditProfiles[b].successfulRepayments
                - creditProfiles[b].defaultedLoans
              = loansWithStatus(Cur, b, "Active")

\* a borrower has repaid two loans and holds a third whose grace period is
\* over
C36_Witness ==
    \E b \in Users :
        /\ loansWithStatus(Cur, b, "Repaid") = 2
        /\ loansWithStatus(Cur, b, "Active") = 1
        /\ creditProfiles[b].totalLoans = 3
        /\ \E l \in LateLoans : l[1] = b

\* the Registry's failure for a principal without a profile
NoProfile == "Profile does not exist"

(* C37: requestLoan by a principal without an active profile fails (with    *)
(* "Credit score too low" when the amount is in range: the default score 50 *)
(* is below the threshold 60) and changes nothing; every principal with a   *)
(* loan has an active profile; and no requestLoan or repayLoan, by any      *)
(* caller with any argument, ends in the Registry's "Profile does not       *)
(* exist".                                                                  *)
C37_BorrowersHaveProfiles ==
    \A c \in Users :
        /\ Len(borrowerLoans[c]) > 0 => creditProfiles[c].isActive
        /\ \A a \in RequestAmounts :
              /\ requestLoan(Cur, c, a).err # NoProfile
              /\ ~creditProfiles[c].isActive =>
                    Aborted(requestLoan(Cur, c, a),
                            {IF a < MIN_LOAN_AMOUNT THEN "Amount too low"
                             ELSE IF a > MAX_LOAN_AMOUNT THEN "Amount exceeds maximum"
                             ELSE "Credit score too low"})
        /\ \A id \in LoanIds : repayLoan(Cur, c, id).err # NoProfile

\* a principal without a profile is refused a loan the pool could pay out,
\* while a borrower with a profile has repaid a loan and holds one whose
\* repayment would go through the default report
C37_Witness ==
    /\ \E c \in Users :
          /\ ~creditProfiles[c].isActive
          /\ Pool \in oracles
          /\ usdcBalance[Pool] >= LoanAmount
          /\ requestLoan(Cur, c, LoanAmount).err = "Credit score too low"
    /\ \E b \in Users :
          /\ creditProfiles[b].isActive
          /\ loansWithStatus(Cur, b, "Repaid") > 0
          /\ \E l \in LateLoans : l[1] = b

\* the terms of a loan: what is fixed when it is created
termsOf(loan) ==
    [amount |-> loan.amount, interestAmount |-> loan.interestAmount,
     startTime |-> loan.startTime, dueDate |-> loan.dueDate,
     borrower |-> loan.borrower]

\* every loan of the state is there after the step, with the same terms
TermsKept ==
    \A b \in Users :
        /\ Len(borrowerLoans'[b]) >= Len(borrowerLoans[b])
        /\ \A i \in DOMAIN borrowerLoans[b] :
              termsOf(borrowerLoans'[b][i]) = termsOf(borrowerLoans[b][i])

\* the terms requestLoan gives a loan
TermsWellFormed ==
    \A b \in Users : \A i \in DOMAIN borrowerLoans[b] :
        LET loan == borrowerLoans[b][i]
        IN  /\ loan.dueDate = loan.startTime + 30 * Day
            /\ loan.amount >= MIN_LOAN_AMOUNT
            /\ loan.amount <= MAX_LOAN_AMOUNT
            /\ loan.interestAmount > 0
            /\ loan.borrower = b

\* a new score for the borrower leaves the loans as they are
ScoreChangeKeepsLoans ==
    \A c \in Callers, b \in Users, s \in IssuanceScores :
        updateScore(Cur, c, b, s).st.borrowerLoans = borrowerLoans

(* C38: the principal, interestDue, startTime, dueDate and borrower of a    *)
(* loan are the same in every state after its creation, also after          *)
(* updateScore and after the +2 of a repayment; and every loan has dueDate  *)
(* = startTime + 30 days, a principal within [MIN_LOAN_AMOUNT,              *)
(* MAX_LOAN_AMOUNT], interestDue > 0 and as borrower the principal whose    *)
(* list holds it.                                                           *)
C38_LoanTermsFixed ==
    /\ [](TermsWellFormed /\ ScoreChangeKeepsLoans)
    /\ [][TermsKept]_vars

\* a loan taken at 8% is out while the borrower's score is in the 5% band,
\* after an earlier loan of another amount taken at another instant was repaid
C38_Witness ==
    \E b \in Users :
        /\ Len(borrowerLoans[b]) >= 2
        /\ borrowerLoans[b][1].isRepaid
        /\ borrowerLoans[b][2].isActive
        /\ borrowerLoans[b][1].amount # borrowerLoans[b][2].amount
        /\ borrowerLoans[b][1].startTime # borrowerLoans[b][2].startTime
        /\ borrowerLoans[b][2].interestAmount
              = calculateInterest(borrowerLoans[b][2].amount, 75)
        /\ getScore(Cur, b) >= 91
        /\ calculateInterest(borrowerLoans[b][2].amount, getScore(Cur, b))
              # borrowerLoans[b][2].interestAmount

\* what the Pool and the Registry hold about one principal
recordOf(S, q) ==
    [position |-> S.lenders[q], loans |-> S.borrowerLoans[q],
     profile |-> S.creditProfiles[q]]

\* the call has left the records of every principal but p as they were
Isolated(r, p) == \A q \in Users \ {p} : recordOf(r.st, q) = recordOf(Cur, q)

\* an accepted repayLoan(id) of p marks p's loan number id as Repaid and
\* leaves p's other loans as they were
RepaysOwnLoan(p, id) ==
    LET r == repayLoan(Cur, p, id)
    IN  /\ r.err # "Not loan owner"
        /\ r.err = "" =>
              /\ Repayable(p, id)
              /\ r.st.borrowerLoans[p] =
                    [borrowerLoans[p] EXCEPT ![id + 1].isActive = FALSE,
                                             ![id + 1].isRepaid = TRUE]

(* C39: deposit, withdraw, requestLoan and repayLoan called by a principal  *)
(* p leave the lender position, the loans and the Registry profile of every *)
(* other principal as they were; repayLoan(loanId) acts on the loan with    *)
(* that ordinal in the caller's own list, so nobody repays, defaults or     *)
(* otherwise alters the loan of another principal.                          *)
C39_PrincipalsIsolated ==
    \A p \in Users :
        /\ \A a \in PositionAmounts \cup RequestAmounts :
              /\ Isolated(deposit(Cur, p, a), p)
              /\ Isolated(withdraw(Cur, p, a), p)
              /\ Isolated(requestLoan(Cur, p, a), p)
        /\ \A id \in LoanIds :
              /\ Isolated(repayLoan(Cur, p, id), p)
              /\ RepaysOwnLoan(p, id)

\* two principals have an Active loan each, both number 0; one of them can
\* repay, the other has a position and can add to it
C39_Witness ==
    \E p, q \in Users :
        /\ p # q
        /\ Repayable(p, 0) /\ Repayable(q, 0)
        /\ lenders[q].deposited > 0
        /\ repayLoan(Cur, p, 0).err = ""
        /\ deposit(Cur, q, 1).err = ""

\* the principals whose hasBadge flag is set
Flagged == {u \in Users : hasBadge[u]}

(* C40: in every reachable state of the Issuer, hasBadge of a principal is  *)
(* true exactly when the principal owns exactly one credential token, no    *)
(* principal owns more than one, and the number of credentials ever minted  *)
(* is the number of principals whose flag is true; so the balance test of   *)
(* the Pool and the flag test of the Issuer agree.                          *)
C40_FlagMatchesBalance ==
    /\ \A u \in Users :
          /\ hasBadge[u] <=> (Cardinality(BadgesOf(Cur, u)) = 1)
          /\ Cardinality(BadgesOf(Cur, u)) <= 1
          /\ hasBadge[u] <=> (badgeBalanceOf(Cur, u) > 0)
    /\ nextTokenId - 1 = Cardinality(Flagged)

TypeOK ==
    /\ \A u \in Users : creditProfiles[u].score \in 0 .. MaxUint8
    /\ oracles \subseteq Holders
    /\ nextTokenId = Len(badges) + 1
    /\ Len(badgeOwner) = Len(badges)
    /\ entered = FALSE
    /\ poolOwner \in Callers
====
